---- MODULE Spec2Model ----
(***************************************************************************)
(* Model of cni-log: the process-wide leveled logger (logging.go on top of *)
(* pkg/state, pkg/level and pkg/prefixer).                                 *)
(*                                                                         *)
(* Strings are sequences of tokens (a token is a TLA+ string standing for  *)
(* a run of characters); format verbs ("%d", "%s", ...) and the double     *)
(* quote are tokens of their own, so that fmt's verb processing and %q's   *)
(* escaping are computed and not assumed.  Go values handed to fmt are     *)
(* tagged records [t |-> type, v |-> value].                               *)
(***************************************************************************)
EXTENDS Integers, Sequences, FiniteSets, TLC

(***************************************************************************)
(* Bounds of the model.                                                    *)
(***************************************************************************)
\* SetLogLevel is tried with every integer in -1 .. MaxLevelArg
MaxLevelArg == 6
\* structured calls pass 0 .. MaxArgs variadic arguments
MaxArgs == 3

(***************************************************************************)
(* pkg/level                                                               *)
(***************************************************************************)
Invalid == -1
Panic == 1
Error == 2
Warning == 3
Info == 4
Debug == 5
maximum == Debug

panicStr == "panic"
errorStr == "error"
warningStr == "warning"
infoStr == "info"
debugStr == "debug"
invalidStr == "invalid"

\* The name table is looked up by the characters of a string: a string given
\* to StringToLevel is the sequence of its characters.
Lowercase ==
  <<"a", "b", "c", "d", "e", "f", "g", "h", "i", "j", "k", "l", "m",
    "n", "o", "p", "q", "r", "s", "t", "u", "v", "w", "x", "y", "z">>
Uppercase ==
  <<"A", "B", "C", "D", "E", "F", "G", "H", "I", "J", "K", "L", "M",
    "N", "O", "P", "Q", "R", "S", "T", "U", "V", "W", "X", "Y", "Z">>

\* the characters of the strings of the level names
Chars(str) ==
  CASE str = "panic" -> <<"p", "a", "n", "i", "c">>
    [] str = "error" -> <<"e", "r", "r", "o", "r">>
    [] str = "warning" -> <<"w", "a", "r", "n", "i", "n", "g">>
    [] str = "info" -> <<"i", "n", "f", "o">>
    [] str = "debug" -> <<"d", "e", "b", "u", "g">>
    [] str = "invalid" -> <<"i", "n", "v", "a", "l", "i", "d">>
    [] str = "verbose" -> <<"v", "e", "r", "b", "o", "s", "e">>

\* strings.ToLower
ToLowerChar(c) ==
  IF \E i \in 1..Len(Uppercase) : Uppercase[i] = c
  THEN Lowercase[CHOOSE i \in 1..Len(Uppercase) : Uppercase[i] = c]
  ELSE c
ToLower(str) == [i \in 1..Len(str) |-> ToLowerChar(str[i])]

\* var levelMap = map[string]Level{...}
levelMap ==
  [k \in {panicStr, errorStr, warningStr, infoStr, debugStr} |->
     CASE k = panicStr -> Panic
       [] k = errorStr -> Error
       [] k = warningStr -> Warning
       [] k = infoStr -> Info
       [] k = debugStr -> Debug]

\* String with the default branch of a switch that knows no invalid level
StringDefaultUnknown(l) ==
  CASE l = Panic -> panicStr
    [] l = Warning -> warningStr
    [] l = Info -> infoStr
    [] l = Error -> errorStr
    [] l = Debug -> debugStr
    [] l = Invalid -> invalidStr
    [] OTHER -> "unknown"

\* func (l Level) String() string
String(l) ==
  CASE l = Panic -> panicStr
    [] l = Warning -> warningStr
    [] l = Info -> infoStr
    [] l = Error -> errorStr
    [] l = Debug -> debugStr
    [] l = Invalid -> invalidStr
    [] OTHER -> invalidStr

\* IsValid without the upper bound
IsValidNoMaximum(l) == l > 0

\* func (l Level) IsValid() bool
IsValid(l) == l > 0 /\ l <= maximum

(***************************************************************************)
(* Go values and package fmt (the part of it the logger uses)              *)
(***************************************************************************)
Nil == [t |-> "nil"]
StrV(toks) == [t |-> "string", v |-> toks]
IntV(n) == [t |-> "int", v |-> n]
LevelV(l) == [t |-> "Level", v |-> l]

Quote == "\""

\* the escaping done by %q (strconv.Quote): a double quote and a backslash
\* get a backslash in front
RECURSIVE EscapeToks(_)
EscapeToks(toks) ==
  IF toks = << >> THEN << >>
  ELSE (IF Head(toks) \in {Quote, "\\"} THEN <<"\\", Head(toks)>> ELSE <<Head(toks)>>)
       \o EscapeToks(Tail(toks))

Quoted(toks) == <<Quote>> \o EscapeToks(toks) \o <<Quote>>

\* what %v, %+v and %s print for a value: a string as it is, a Level through
\* its String method, an int in decimal
Plain(arg) ==
  CASE arg.t = "string" -> arg.v
    [] arg.t = "Level" -> <<String(arg.v)>>
    [] arg.t = "int" -> <<ToString(arg.v)>>

Verbs == {"%d", "%s", "%v", "%+v", "%q"}

\* the verb character fmt names in its error texts
VerbChar(verb) ==
  CASE verb = "%d" -> "d"
    [] verb = "%s" -> "s"
    [] verb = "%q" -> "q"
    [] verb \in {"%v", "%+v"} -> "v"

\* one verb applied to one operand
FormatVerb(verb, arg) ==
  CASE verb \in {"%v", "%+v"} -> Plain(arg)
    [] verb = "%s" -> IF arg.t = "int"
                      THEN <<"%!s(int=", ToString(arg.v), ")">>
                      ELSE Plain(arg)
    [] verb = "%q" /\ arg.t # "int" -> Quoted(Plain(arg))
    [] verb = "%d" -> IF arg.t = "int" THEN <<ToString(arg.v)>>
                      ELSE IF arg.t = "Level" THEN <<ToString(arg.v)>>
                      ELSE <<"%!d(string=">> \o arg.v \o <<")">>

RECURSIVE ExtraArgs(_)
ExtraArgs(a) ==
  IF a = << >> THEN << >>
  ELSE <<a[1].t, "=">> \o Plain(a[1])
       \o (IF Len(a) > 1 THEN <<", ">> ELSE << >>) \o ExtraArgs(Tail(a))

\* fmt.Sprintf: verbs consume the operands in order, "%%" is a percent sign,
\* a verb without operand prints %!verb(MISSING), operands left over are
\* reported at the end as %!(EXTRA ...)
RECURSIVE Sprintf(_, _)
Sprintf(format, a) ==
  IF format = << >>
  THEN IF a = << >> THEN << >> ELSE <<"%!(EXTRA ">> \o ExtraArgs(a) \o <<")">>
  ELSE LET tok == Head(format) IN
       IF tok = "%%" THEN <<"%">> \o Sprintf(Tail(format), a)
       ELSE IF tok \in Verbs
       THEN IF a = << >>
            THEN <<"%!", VerbChar(tok), "(MISSING)">> \o Sprintf(Tail(format), a)
            ELSE FormatVerb(tok, Head(a)) \o Sprintf(Tail(format), Tail(a))
       ELSE <<tok>> \o Sprintf(Tail(format), a)

(***************************************************************************)
(* Inputs                                                                  *)
(***************************************************************************)
\* what time.Now().Format(TimeFormat) returns
Now == "2026-01-02T03:04:05Z"

\* A path is the sequence of its components; << >> is the empty string.
NoFile == << >>
logFile == <<"tmp", "test.log">>
symlink == <<"tmp", ".", "symtarget.txt">>
procFile == <<"proc", "foobar.log">>
Filenames == {NoFile, logFile, symlink, procFile}

\* filepath.Clean, on absolute paths without "..": drops the empty and the
\* "." components
RECURSIVE Clean(_)
Clean(path) ==
  IF path = << >> THEN << >>
  ELSE (IF Head(path) \in {"", "."} THEN << >> ELSE <<Head(path)>>) \o Clean(Tail(path))

\* The file system, by resolved path: what is there.  "file": a regular file
\* that can be opened for append (or can be created, with its directories);
\* "denied": cannot be created or opened.  The probe of isLogFileWritable may
\* create the file; the logger never reads the file system otherwise, so the
\* model keeps it fixed.
FsPaths == {Clean(p) : p \in Filenames \ {NoFile}}
FileSystem == [p \in FsPaths |->
                CASE p = Clean(symlink) -> "symlink"
                  [] p = procFile -> "denied"
                  [] OTHER -> "file"]

\* options.Options: every field is a pointer, Nil when unset
Options(age, size, backups, compress) ==
  [t |-> "Options", MaxAge |-> age, MaxSize |-> size, MaxBackups |-> backups,
   Compress |-> compress]
BoolV(b) == [t |-> "bool", v |-> b]
OptionsArgs ==
  { Nil,
    Options(IntV(1), IntV(10), IntV(1), BoolV(TRUE)),
    Options(Nil, Nil, IntV(1), BoolV(FALSE)) }

(***************************************************************************)
(* pkg/prefixer and the prefixers of the test suite                        *)
(***************************************************************************)
defaultTimestampFormat == "RFC3339Nano"

\* &prefixer.Default{PrefixFormat: "%s [%s] ", TimeFormat: ...}
DefaultPrefixer ==
  [t |-> "Default", PrefixFormat |-> <<"%s", " [", "%s", "] ">>,
   TimeFormat |-> defaultTimestampFormat]
\* &prefixer.Default{TimeFormat: ...}
DefaultStructuredPrefixer ==
  [t |-> "Default", PrefixFormat |-> << >>, TimeFormat |-> defaultTimestampFormat]
\* &customPrefix{prefixFormat: "[%s/%s] - %s: ", currentFile: "logging_test.go"}
customPrefix ==
  [t |-> "customPrefix",
   prefixFormat |-> <<"[", "%s", "/", "%s", "] - ", "%s", ": ">>,
   currentFile |-> <<"logging_test.go">>]
\* the StructuredPrefixerFunc of the test suite that returns five elements
invalidPrefix == [t |-> "invalidPrefix"]

Prefixers == {DefaultPrefixer, customPrefix}
\* &customPrefix{...} for a file with a percent sign and a letter in its name
percentPrefix ==
  [t |-> "customPrefix",
   prefixFormat |-> <<"[", "%s", "/", "%s", "] - ", "%s", ": ">>,
   currentFile |-> <<"log", "%d", ".go">>]
\* the panic of a method call on a nil interface value
nilDereference ==
  [t |-> "runtime.Error", v |-> <<"invalid memory address or nil pointer dereference">>]
StructuredPrefixers == {DefaultStructuredPrefixer, customPrefix, invalidPrefix}

\* Prefixer.CreatePrefix; customPrefix reads the threshold with GetLogLevel
CreatePrefix(p, loggingLevel, st) ==
  CASE p.t = "Default" ->
         Sprintf(p.PrefixFormat, <<StrV(<<Now>>), LevelV(loggingLevel)>>)
    [] p.t = "customPrefix" ->
         Sprintf(p.prefixFormat,
                 <<LevelV(loggingLevel), LevelV(st.logLevel), StrV(p.currentFile)>>)

\* StructuredPrefixer.CreateStructuredPrefix
CreateStructuredPrefix(p, loggingLevel, message) ==
  CASE p.t = "Default" ->
         <<StrV(<<"time">>), StrV(<<Now>>), StrV(<<"level">>), LevelV(loggingLevel),
           StrV(<<"msg">>), StrV(message)>>
    [] p.t = "customPrefix" ->
         <<StrV(<<"custom-level">>), LevelV(loggingLevel),
           StrV(<<"custom-file">>), StrV(p.currentFile),
           StrV(<<"custom-message">>), StrV(message)>>
    [] p.t = "invalidPrefix" ->
         <<StrV(<<"custom-level">>), LevelV(loggingLevel),
           StrV(<<"custom-message">>), StrV(message), StrV(<<"invalid">>)>>

(***************************************************************************)
(* pkg/state: the singleton and its methods.  Every method takes the lock  *)
(* for its whole body, so each is one function of the state record.        *)
(***************************************************************************)
\* &lumberjack.Logger{}
ZeroLogger ==
  [MaxAge |-> 0, MaxSize |-> 0, MaxBackups |-> 0, Compress |-> FALSE, Filename |-> NoFile]

\* an io.Writer that is a *lumberjack.Logger holding the copied fields
LumberjackWriter(l) == [t |-> "lumberjack", v |-> l]
\* an io.Writer supplied by the caller
CustomWriter(i) == [t |-> "writer", v |-> i]
\* os.Stderr
Stderr == [t |-> "os.Stderr"]

\* var singleton state, with the zero value of every field
ZeroState ==
  [logLevel |-> 0, logger |-> Nil, logWriter |-> Nil, logToStderr |-> FALSE,
   prefixer |-> Nil, structuredPrefixer |-> Nil]

StateSetLogger(st, logger) == [st EXCEPT !.logger = logger]
StateSetLogWriter(st, logWriter) == [st EXCEPT !.logWriter = logWriter]
\* SetLoggerAsLogWriter publishing the path without the policy
StateSetLoggerAsLogWriterPathOnly(st) ==
  [st EXCEPT !.logWriter = LumberjackWriter([ZeroLogger EXCEPT !.Filename = st.logger.Filename])]
StateSetLoggerAsLogWriter(st) == [st EXCEPT !.logWriter = LumberjackWriter(st.logger)]
StateGetLogWriter(st) == st.logWriter
StateSetLogLevel(st, logLevel) == [st EXCEPT !.logLevel = logLevel]
StateGetLogLevel(st) == st.logLevel
StateSetLogToStderr(st, logToStderr) == [st EXCEPT !.logToStderr = logToStderr]
StateGetLogToStderr(st) == st.logToStderr
StateSetPrefixer(st, p) == [st EXCEPT !.prefixer = p]
StateGetPrefixer(st) == st.prefixer
StateSetStructuredPrefixer(st, p) == [st EXCEPT !.structuredPrefixer = p]
StateGetStructuredPrefixer(st) == st.structuredPrefixer
StateIsFileLoggingEnabled(st) == StateGetLogWriter(st) # Nil

StateSetLogFile(st, filename) ==
  IF filename = NoFile
  THEN [st EXCEPT !.logger.Filename = NoFile, !.logWriter = Nil]
  ELSE [st EXCEPT !.logger.Filename = filename,
                  !.logWriter = LumberjackWriter([st.logger EXCEPT !.Filename = filename])]

\* SetLogOptions that overlays the given fields on the previous values
StateSetLogOptionsMerge(st, o) ==
  IF o = Nil THEN st
  ELSE [st EXCEPT
         !.logger.MaxAge = IF o.MaxAge # Nil THEN o.MaxAge.v ELSE @,
         !.logger.MaxSize = IF o.MaxSize # Nil THEN o.MaxSize.v ELSE @,
         !.logger.MaxBackups = IF o.MaxBackups # Nil THEN o.MaxBackups.v ELSE @,
         !.logger.Compress = IF o.Compress # Nil THEN o.Compress.v ELSE @]

StateSetLogOptions(st, o) ==
  LET d == [st EXCEPT !.logger.MaxSize = 100, !.logger.MaxAge = 5,
                      !.logger.MaxBackups = 5, !.logger.Compress = TRUE]
  IN IF o = Nil THEN d
     ELSE [d EXCEPT
            !.logger.MaxAge = IF o.MaxAge # Nil THEN o.MaxAge.v ELSE @,
            !.logger.MaxSize = IF o.MaxSize # Nil THEN o.MaxSize.v ELSE @,
            !.logger.MaxBackups = IF o.MaxBackups # Nil THEN o.MaxBackups.v ELSE @,
            !.logger.Compress = IF o.Compress # Nil THEN o.Compress.v ELSE @]

(***************************************************************************)
(* logging.go: constants and helpers                                       *)
(***************************************************************************)
defaultLogLevel == Info
logFileReqFailMsg ==
  <<"cni-log: filename is required when logging to stderr is off - will not log anything\n">>
logFileFailMsg == <<"cni-log: failed to set log file '", "%s", "'\n">>
setLevelFailMsg == <<"cni-log: cannot set logging level to '", "%s", "'\n">>
symlinkEvalFailMsg == <<"cni-log: unable to evaluate symbolic links on path '", "%v", "'">>
emptyStringFailMsg == <<"cni-log: unable to resolve empty string">>
structuredLoggingOddArguments ==
  <<"must provide an even number of arguments for structured logging">>
structuredPrefixerOddArguments ==
  <<"prefixer must return an even number of arguments for structured logging">>

\* one write call on an io.Writer
Write(w, text) == [text |-> text, to |-> w]

\* the characters of a path: every component with a slash in front
RECURSIVE PathString(_)
PathString(path) ==
  IF path = << >> THEN << >> ELSE <<"/", Head(path)>> \o PathString(Tail(path))

\* func isSymLink(path string) bool: Lstat of the path as given
isSymLink(fsys, path) ==
  Clean(path) \in DOMAIN fsys /\ fsys[Clean(path)] = "symlink"

\* func resolvePath(path string) (string, error)
resolvePath(fsys, path) ==
  IF path = NoFile THEN [fp |-> NoFile, err |-> StrV(emptyStringFailMsg)]
  ELSE IF isSymLink(fsys, path)
  THEN [fp |-> NoFile,
        err |-> StrV(Sprintf(symlinkEvalFailMsg, <<StrV(PathString(path))>>))]
  ELSE [fp |-> Clean(path), err |-> Nil]

\* func isLogFileWritable(filename string) bool
isLogFileWritable(fsys, filename) == fsys[filename] = "file"

(***************************************************************************)
(* logging.go: the setup functions.  Each yields the state it leaves and   *)
(* the writes it makes, in order.                                          *)
(***************************************************************************)
Result(st, writes) == [s |-> st, out |-> writes]

DoSetPrefixer(st, p) == Result(StateSetPrefixer(st, p), << >>)
DoSetStructuredPrefixer(st, p) == Result(StateSetStructuredPrefixer(st, p), << >>)
DoSetDefaultPrefixer(st) == DoSetPrefixer(st, DefaultPrefixer)
DoSetDefaultStructuredPrefixer(st) ==
  DoSetStructuredPrefixer(st, DefaultStructuredPrefixer)

\* SetLogOptions that leaves the log writer alone
DoSetLogOptionsNoRepublish(st, o) == Result(StateSetLogOptions(st, o), << >>)

\* SetLogOptions that republishes only over a managed write-target
DoSetLogOptionsKeepOutput(st, o) ==
  LET s1 == StateSetLogOptions(st, o)
  IN Result(IF StateIsFileLoggingEnabled(s1) /\ StateGetLogWriter(s1).t # "writer"
            THEN StateSetLoggerAsLogWriter(s1) ELSE s1,
            << >>)

\* func SetLogOptions(o *options.Options)
DoSetLogOptions(st, o) ==
  LET s1 == StateSetLogOptions(st, o)
  IN Result(IF StateIsFileLoggingEnabled(s1) THEN StateSetLoggerAsLogWriter(s1) ELSE s1,
            << >>)

\* SetLogFile that falls back to clearing the target when the path is refused
DoSetLogFileClearOnReject(st, filename) ==
  IF filename = NoFile
  THEN Result(StateSetLogFile(st, NoFile),
              IF ~StateGetLogToStderr(st) THEN <<Write(Stderr, logFileReqFailMsg)>> ELSE << >>)
  ELSE LET r == resolvePath(FileSystem, filename) IN
       IF r.err # Nil THEN Result(StateSetLogFile(st, NoFile), <<Write(Stderr, r.err.v)>>)
       ELSE IF ~isLogFileWritable(FileSystem, r.fp)
       THEN Result(StateSetLogFile(st, NoFile),
                   <<Write(Stderr, Sprintf(logFileFailMsg, <<StrV(PathString(filename))>>))>>)
       ELSE Result(StateSetLogFile(st, filename), << >>)

\* SetLogFile("") that returns after the diagnostic, the target kept
DoSetLogFileWarnOnly(st, filename) ==
  IF filename = NoFile /\ ~StateGetLogToStderr(st)
  THEN Result(st, <<Write(Stderr, logFileReqFailMsg)>>)
  ELSE IF filename = NoFile THEN Result(StateSetLogFile(st, NoFile), << >>)
  ELSE LET r == resolvePath(FileSystem, filename) IN
       IF r.err # Nil THEN Result(st, <<Write(Stderr, r.err.v)>>)
       ELSE IF ~isLogFileWritable(FileSystem, r.fp)
       THEN Result(st,
                   <<Write(Stderr, Sprintf(logFileFailMsg, <<StrV(PathString(filename))>>))>>)
       ELSE Result(StateSetLogFile(st, filename), << >>)

\* func SetLogFile(filename string)
DoSetLogFile(st, filename) ==
  IF filename = NoFile
  THEN Result(StateSetLogFile(st, NoFile),
              IF ~StateGetLogToStderr(st) THEN <<Write(Stderr, logFileReqFailMsg)>> ELSE << >>)
  ELSE LET r == resolvePath(FileSystem, filename) IN
       IF r.err # Nil THEN Result(st, <<Write(Stderr, r.err.v)>>)
       ELSE IF ~isLogFileWritable(FileSystem, r.fp)
       THEN Result(st,
                   <<Write(Stderr, Sprintf(logFileFailMsg, <<StrV(PathString(filename))>>))>>)
       ELSE Result(StateSetLogFile(st, filename), << >>)

\* SetLogLevel reporting through the stderr sink: silent when the flag is off
DoSetLogLevelGated(st, l) ==
  IF IsValid(l) THEN Result(StateSetLogLevel(st, l), << >>)
  ELSE Result(st,
              IF StateGetLogToStderr(st) /\ Error <= StateGetLogLevel(st)
              THEN <<Write(Stderr, Sprintf(setLevelFailMsg, <<LevelV(l)>>))>>
              ELSE << >>)

\* SetLogLevel that stores the level before it looks at it
DoSetLogLevelUnchecked(st, l) ==
  IF IsValid(l) THEN Result(StateSetLogLevel(st, l), << >>)
  ELSE Result(StateSetLogLevel(st, l),
              <<Write(Stderr, Sprintf(setLevelFailMsg, <<LevelV(l)>>))>>)

\* func SetLogLevel(l level.Level)
DoSetLogLevel(st, l) ==
  IF IsValid(l) THEN Result(StateSetLogLevel(st, l), << >>)
  ELSE Result(st, <<Write(Stderr, Sprintf(setLevelFailMsg, <<LevelV(l)>>))>>)

\* the level a string is looked up to, and the writes of the lookup
Parsed(l, writes) == [out |-> writes, ret |-> l]

\* StringToLevel looking the string up as it is given
DoStringToLevelCaseSensitive(level) ==
  IF \E k \in DOMAIN levelMap : Chars(k) = level
  THEN Parsed(levelMap[CHOOSE k \in DOMAIN levelMap : Chars(k) = level], << >>)
  ELSE Parsed(Invalid, << >>)

\* StringToLevel reporting the string it does not find on os.Stderr
DoStringToLevelReporting(level) ==
  IF \E k \in DOMAIN levelMap : Chars(k) = ToLower(level)
  THEN Parsed(levelMap[CHOOSE k \in DOMAIN levelMap : Chars(k) = ToLower(level)], << >>)
  ELSE Parsed(Invalid, <<Write(Stderr, Sprintf(setLevelFailMsg, <<StrV(level)>>))>>)

\* func StringToLevel(level string) Level
DoStringToLevel(level) ==
  IF \E k \in DOMAIN levelMap : Chars(k) = ToLower(level)
  THEN Parsed(levelMap[CHOOSE k \in DOMAIN levelMap : Chars(k) = ToLower(level)], << >>)
  ELSE Parsed(Invalid, << >>)

\* SetLogStderr looking at the descriptor's file name, not at the write-target
DoSetLogStderrByFilename(st, enable) ==
  Result(StateSetLogToStderr(st, enable),
         IF ~enable /\ st.logger.Filename = NoFile
         THEN <<Write(Stderr, logFileReqFailMsg)>> ELSE << >>)

\* func SetLogStderr(enable bool)
DoSetLogStderr(st, enable) ==
  Result(StateSetLogToStderr(st, enable),
         IF ~enable /\ ~StateIsFileLoggingEnabled(st)
         THEN <<Write(Stderr, logFileReqFailMsg)>> ELSE << >>)

\* SetOutput switching the stderr sink off as it installs the writer
DoSetOutputStderrOff(st, w) ==
  Result(StateSetLogToStderr(StateSetLogWriter(st, w), FALSE), << >>)

\* func SetOutput(out io.Writer)
DoSetOutput(st, w) == Result(StateSetLogWriter(st, w), << >>)

\* initLogger clearing the file target before it enables stderr
DoInitLoggerFileFirst(st) ==
  LET r0 == Result(StateSetLogger(st, ZeroLogger), << >>)
      r1 == DoSetLogOptions(r0.s, Nil)
      r2 == DoSetLogFile(r1.s, NoFile)
      r3 == DoSetLogStderr(r2.s, TRUE)
      r4 == DoSetLogLevel(r3.s, defaultLogLevel)
      r5 == DoSetDefaultPrefixer(r4.s)
      r6 == DoSetDefaultStructuredPrefixer(r5.s)
  IN Result(r6.s, r1.out \o r2.out \o r3.out \o r4.out \o r5.out \o r6.out)

\* func initLogger()
DoInitLogger(st) ==
  LET r0 == Result(StateSetLogger(st, ZeroLogger), << >>)
      r1 == DoSetLogOptions(r0.s, Nil)
      r2 == DoSetLogStderr(r1.s, TRUE)
      r3 == DoSetLogFile(r2.s, NoFile)
      r4 == DoSetLogLevel(r3.s, defaultLogLevel)
      r5 == DoSetDefaultPrefixer(r4.s)
      r6 == DoSetDefaultStructuredPrefixer(r5.s)
  IN Result(r6.s, r1.out \o r2.out \o r3.out \o r4.out \o r5.out \o r6.out)

(***************************************************************************)
(* logging.go: the dispatch and formatting pipeline                        *)
(***************************************************************************)
\* string(debug.Stack())
StackTrace == <<"goroutine 1 [running]:...">>

\* func argToString(arg interface{}) string
argToString(arg) == Sprintf(<<"%+v">>, <<arg>>)

\* fmt.Sprintf("%s=%q", argToString(k), argToString(v))
RenderPair(k, v) ==
  Sprintf(<<"%s", "=", "%q">>, <<StrV(argToString(k)), StrV(argToString(v))>>)

\* for i := 0; i < len(list)-1; i += 2 { output = append(output, ...) }
RECURSIVE RenderPairs(_, _)
RenderPairs(list, i) ==
  IF i < Len(list) - 1
  THEN <<RenderPair(list[i + 1], list[i + 2])>> \o RenderPairs(list, i + 2)
  ELSE << >>

\* strings.Join(elems, sep)
RECURSIVE Join(_, _)
Join(elems, sep) ==
  IF elems = << >> THEN << >>
  ELSE IF Len(elems) = 1 THEN elems[1]
  ELSE elems[1] \o sep \o Join(Tail(elems), sep)

\* structuredMessage that looks at the caller's arguments first
structuredMessageArgsFirst(st, loggingLevel, msg, args) ==
  LET prefixArgs ==
        CreateStructuredPrefix(StateGetStructuredPrefixer(st), loggingLevel, msg)
  IN IF Len(args) % 2 # 0
     THEN [panic |-> StrV(Join(<<Sprintf(<<"logging_failure=", "%q">>,
                                         <<StrV(structuredLoggingOddArguments)>>)>>, <<" ">>)),
           m |-> << >>]
     ELSE IF Len(prefixArgs) % 2 # 0
     THEN [panic |-> StrV(Sprintf(<<"msg=", "%q", " logging_failure=", "%q">>,
                                  <<StrV(msg), StrV(structuredPrefixerOddArguments)>>)),
           m |-> << >>]
     ELSE [panic |-> Nil,
           m |-> Join(RenderPairs(prefixArgs, 0) \o RenderPairs(args, 0), <<" ">>)]

\* structuredMessage that renders the caller's pairs before it looks at their
\* number
structuredMessageRenderFirst(st, loggingLevel, msg, args) ==
  LET prefixArgs ==
        CreateStructuredPrefix(StateGetStructuredPrefixer(st), loggingLevel, msg)
  IN IF Len(prefixArgs) % 2 # 0
     THEN [panic |-> StrV(Sprintf(<<"msg=", "%q", " logging_failure=", "%q">>,
                                  <<StrV(msg), StrV(structuredPrefixerOddArguments)>>)),
           m |-> << >>]
     ELSE LET output == RenderPairs(prefixArgs, 0) \o RenderPairs(args, 0) IN
          IF Len(args) % 2 # 0
          THEN [panic |-> StrV(Join(output \o <<Sprintf(<<"logging_failure=", "%q">>,
                                                        <<StrV(structuredLoggingOddArguments)>>)>>,
                                    <<" ">>)),
                m |-> << >>]
          ELSE [panic |-> Nil, m |-> Join(output, <<" ">>)]

\* func structuredMessage(loggingLevel level.Level, msg string, args ...interface{}) string
\* panic: the value the call panics with, Nil when it returns m
structuredMessage(st, loggingLevel, msg, args) ==
  LET prefixArgs ==
        CreateStructuredPrefix(StateGetStructuredPrefixer(st), loggingLevel, msg)
  IN IF StateGetStructuredPrefixer(st) = Nil
     THEN [panic |-> nilDereference, m |-> << >>]
     ELSE IF Len(prefixArgs) % 2 # 0
     THEN [panic |-> StrV(Sprintf(<<"msg=", "%q", " logging_failure=", "%q">>,
                                  <<StrV(msg), StrV(structuredPrefixerOddArguments)>>)),
           m |-> << >>]
     ELSE LET output == RenderPairs(prefixArgs, 0) IN
          IF Len(args) % 2 # 0
          THEN [panic |-> StrV(Join(output \o <<Sprintf(<<"logging_failure=", "%q">>,
                                                        <<StrV(structuredLoggingOddArguments)>>)>>,
                                    <<" ">>)),
                m |-> << >>]
          ELSE [panic |-> Nil, m |-> Join(output \o RenderPairs(args, 0), <<" ">>)]

\* func doWritef(writer io.Writer, format string, a ...interface{})
doWritef(writer, format, a) ==
  <<Write(writer, Sprintf(format, a)), Write(writer, <<"\n">>)>>

\* printWithPrefixf with the comparison of the gate turned around
printWithPrefixfGateReversed(st, l, printPrefix, format, a) ==
  IF l < StateGetLogLevel(st) THEN << >>
  ELSE IF ~StateIsFileLoggingEnabled(st) /\ ~StateGetLogToStderr(st) THEN << >>
  ELSE LET f == IF printPrefix
                THEN CreatePrefix(StateGetPrefixer(st), l, st) \o format
                ELSE format
       IN (IF StateGetLogToStderr(st) THEN doWritef(Stderr, f, a) ELSE << >>)
          \o (IF StateIsFileLoggingEnabled(st)
              THEN doWritef(StateGetLogWriter(st), f, a) ELSE << >>)

\* printWithPrefixf that writes to the file only when os.Stderr is off
printWithPrefixfElseFile(st, l, printPrefix, format, a) ==
  IF l > StateGetLogLevel(st) THEN << >>
  ELSE IF ~StateIsFileLoggingEnabled(st) /\ ~StateGetLogToStderr(st) THEN << >>
  ELSE LET f == IF printPrefix
                THEN CreatePrefix(StateGetPrefixer(st), l, st) \o format
                ELSE format
       IN IF StateGetLogToStderr(st) THEN doWritef(Stderr, f, a)
          ELSE doWritef(StateGetLogWriter(st), f, a)

\* printWithPrefixf that always writes to os.Stderr
printWithPrefixfAlwaysStderr(st, l, printPrefix, format, a) ==
  IF l > StateGetLogLevel(st) THEN << >>
  ELSE LET f == IF printPrefix
                THEN CreatePrefix(StateGetPrefixer(st), l, st) \o format
                ELSE format
       IN doWritef(Stderr, f, a)
          \o (IF StateIsFileLoggingEnabled(st)
              THEN doWritef(StateGetLogWriter(st), f, a) ELSE << >>)

\* func printWithPrefixf(l level.Level, printPrefix bool, format string, a ...interface{})
\* the writes it makes, in order
printWithPrefixf(st, l, printPrefix, format, a) ==
  IF l > StateGetLogLevel(st) THEN << >>
  ELSE IF ~StateIsFileLoggingEnabled(st) /\ ~StateGetLogToStderr(st) THEN << >>
  ELSE LET f == IF printPrefix
                THEN CreatePrefix(StateGetPrefixer(st), l, st) \o format
                ELSE format
       IN (IF StateGetLogToStderr(st) THEN doWritef(Stderr, f, a) ELSE << >>)
          \o (IF StateIsFileLoggingEnabled(st)
              THEN doWritef(StateGetLogWriter(st), f, a) ELSE << >>)

\* printWithPrefixf comes to s.GetPrefixer().CreatePrefix(l) with no Prefixer
\* set: it panics there, before any write
printfPanics(st, l) ==
  /\ l <= StateGetLogLevel(st)
  /\ StateIsFileLoggingEnabled(st) \/ StateGetLogToStderr(st)
  /\ StateGetPrefixer(st) = Nil

\* func printf(l level.Level, format string, a ...interface{})
printf(st, l, format, a) == printWithPrefixf(st, l, TRUE, format, a)

(***************************************************************************)
(* What the callers pass                                                   *)
(***************************************************************************)
\* format and operands of the plain entry points
PlainInputs == { [a |-> <<IntV(7)>>, format |-> <<"hello ", "%d">>] }

\* messages of the structured entry points
Messages == { <<"evt ", Quote, "x", Quote>> }

\* the variadic key/value arguments are the first n elements of one of these
ArgPools ==
  { <<StrV(<<"key">>), StrV(<<"a", Quote, "b">>), StrV(<<"n">>), IntV(7),
      StrV(<<"l">>), LevelV(Info)>> }
PoolList(pool, n) == [i \in 1..n |-> pool[((i - 1) % Len(pool)) + 1]]
\* one more list, with a value that holds a percent sign and a letter
PercentArgs == <<StrV(<<"pct">>), StrV(<<"50", "%d">>)>>
ArgLists == { PoolList(pool, n) : pool \in ArgPools, n \in 0..MaxArgs } \cup {PercentArgs}

\* the writers handed to SetOutput: the bytes.Buffer of the test suite
Writers == { CustomWriter("out") }

(***************************************************************************)
(* pkg/state: the methods statement by statement, for goroutines that call *)
(* them concurrently                                                       *)
(***************************************************************************)
Threads == {"g1", "g2"}

Setters ==
  {"SetLogger", "SetLogWriter", "SetLoggerAsLogWriter", "SetLogLevel", "SetLogToStderr",
   "SetPrefixer", "SetStructuredPrefixer", "SetLogFile", "SetLogOptions"}
Getters ==
  {"GetLogger", "GetLogWriter", "GetLogLevel", "GetLogToStderr", "GetPrefixer",
   "GetStructuredPrefixer", "IsFileLoggingEnabled"}
Methods == Setters \cup Getters

\* the lock a method takes, with SetLogFile taking the shared one
LockModeSetLogFileShared(method) ==
  IF method \in Setters \ {"SetLogFile"} THEN "Lock" ELSE "RLock"

\* the lock a method takes first and gives back by defer: Lock or RLock
LockMode(method) == IF method \in Setters THEN "Lock" ELSE "RLock"

\* what the goroutines pass to a method
MethodArgs(method) ==
  CASE method = "SetLogger" -> {ZeroLogger}
    [] method = "SetLogWriter" -> Writers
    [] method = "SetLogLevel" -> {Info, Debug}
    [] method = "SetLogToStderr" -> BOOLEAN
    [] method = "SetPrefixer" -> {customPrefix}
    [] method = "SetStructuredPrefixer" -> {customPrefix}
    [] method = "SetLogFile" -> {NoFile, logFile}
    [] method = "SetLogOptions" -> {Nil, Options(Nil, Nil, IntV(1), BoolV(FALSE))}
    [] OTHER -> {Nil}

\* the statements of a method between taking the lock and returning
NumStatements(method, param) ==
  CASE method = "SetLoggerAsLogWriter" -> 2
    [] method = "SetLogFile" -> IF param = NoFile THEN 2 ELSE 3
    [] method = "SetLogOptions" -> IF param = Nil THEN 4 ELSE 8
    [] OTHER -> 1

\* StateGetLogger
StateGetLogger(st) == st.logger

\* a goroutine inside a method: the method, its argument, the statement it
\* executes next, the state it found when it got the lock, its local value
\* (the copy cp of a setter, the value to return of a getter)
Inside(method, param, k, found, value) ==
  [method |-> method, param |-> param, found |-> found, value |-> value, statement |-> k]
Outside == Inside("", Nil, 0, Nil, Nil)

Unlocked == [writer |-> "", readers |-> {}]

\* statement k of the method on state st with local value v: the state and
\* the local value after it
Effect(st, v) == [s |-> st, value |-> v]
Statement(method, param, k, st, v) ==
  CASE method = "SetLogger" -> Effect([st EXCEPT !.logger = param], v)
    [] method = "SetLogWriter" -> Effect([st EXCEPT !.logWriter = param], v)
    [] method = "SetLoggerAsLogWriter" ->
         IF k = 1 THEN Effect(st, st.logger)
         ELSE Effect([st EXCEPT !.logWriter = LumberjackWriter(v)], v)
    [] method = "SetLogLevel" -> Effect([st EXCEPT !.logLevel = param], v)
    [] method = "SetLogToStderr" -> Effect([st EXCEPT !.logToStderr = param], v)
    [] method = "SetPrefixer" -> Effect([st EXCEPT !.prefixer = param], v)
    [] method = "SetStructuredPrefixer" ->
         Effect([st EXCEPT !.structuredPrefixer = param], v)
    [] method = "SetLogFile" /\ param = NoFile ->
         IF k = 1 THEN Effect([st EXCEPT !.logger.Filename = NoFile], v)
         ELSE Effect([st EXCEPT !.logWriter = Nil], v)
    [] method = "SetLogFile" /\ param # NoFile ->
         IF k = 1 THEN Effect([st EXCEPT !.logger.Filename = param], v)
         ELSE IF k = 2 THEN Effect(st, st.logger)
         ELSE Effect([st EXCEPT !.logWriter = LumberjackWriter(v)], v)
    [] method = "SetLogOptions" ->
         ( CASE k = 1 -> Effect([st EXCEPT !.logger.MaxSize = 100], v)
           [] k = 2 -> Effect([st EXCEPT !.logger.MaxAge = 5], v)
           [] k = 3 -> Effect([st EXCEPT !.logger.MaxBackups = 5], v)
           [] k = 4 -> Effect([st EXCEPT !.logger.Compress = TRUE], v)
           [] k = 5 -> Effect(IF param.MaxAge # Nil
                              THEN [st EXCEPT !.logger.MaxAge = param.MaxAge.v]
                              ELSE st, v)
           [] k = 6 -> Effect(IF param.MaxSize # Nil
                              THEN [st EXCEPT !.logger.MaxSize = param.MaxSize.v]
                              ELSE st, v)
           [] k = 7 -> Effect(IF param.MaxBackups # Nil
                              THEN [st EXCEPT !.logger.MaxBackups = param.MaxBackups.v]
                              ELSE st, v)
           [] k = 8 -> Effect(IF param.Compress # Nil
                              THEN [st EXCEPT !.logger.Compress = param.Compress.v]
                              ELSE st, v) )
    [] method = "GetLogger" -> Effect(st, st.logger)
    [] method = "GetLogWriter" -> Effect(st, st.logWriter)
    [] method = "GetLogLevel" -> Effect(st, LevelV(st.logLevel))
    [] method = "GetLogToStderr" -> Effect(st, BoolV(st.logToStderr))
    [] method = "GetPrefixer" -> Effect(st, st.prefixer)
    [] method = "GetStructuredPrefixer" -> Effect(st, st.structuredPrefixer)
    [] method = "IsFileLoggingEnabled" -> Effect(st, BoolV(st.logWriter # Nil))

(***************************************************************************)
(* The state machine                                                       *)
(***************************************************************************)
VARIABLES
  s,          \* the singleton of pkg/state
  call,       \* the public function called last, with its arguments
  out,        \* the writes that call made, in order
  panicValue, \* the value that call panicked with, Nil when it returned
  errValue,   \* the error that call returned, Nil when it returns none
  retValue,   \* the value a level function returned, Nil for every other call
  threads,    \* the goroutines inside a method of the state: method and position
  loggerMutex \* the sync.RWMutex of the state: its writer and its readers

vars == <<s, call, out, panicValue, errValue, retValue, threads, loggerMutex>>

Init ==
  LET r == DoInitLogger(ZeroState)
  IN /\ s = r.s
     /\ call = [op |-> "init"]
     /\ out = r.out
     /\ panicValue = Nil
     /\ errValue = Nil
     /\ retValue = Nil
     /\ threads = [t \in Threads |-> Outside]
     /\ loggerMutex = Unlocked

\* a setup function ran and left r
Setup(c, r) ==
  /\ s' = r.s
  /\ call' = c
  /\ out' = r.out
  /\ panicValue' = Nil
  /\ errValue' = Nil
  /\ retValue' = Nil
  /\ UNCHANGED <<threads, loggerMutex>>

initLogger == Setup([op |-> "initLogger"], DoInitLogger(s))

SetPrefixer ==
  \E p \in Prefixers : Setup([arg |-> p, op |-> "SetPrefixer"], DoSetPrefixer(s, p))

SetStructuredPrefixer ==
  \E p \in StructuredPrefixers :
    Setup([arg |-> p, op |-> "SetStructuredPrefixer"], DoSetStructuredPrefixer(s, p))

SetDefaultPrefixer == Setup([op |-> "SetDefaultPrefixer"], DoSetDefaultPrefixer(s))

SetDefaultStructuredPrefixer ==
  Setup([op |-> "SetDefaultStructuredPrefixer"], DoSetDefaultStructuredPrefixer(s))

SetLogOptions ==
  \E o \in OptionsArgs : Setup([arg |-> o, op |-> "SetLogOptions"], DoSetLogOptions(s, o))

SetLogFile ==
  \E filename \in Filenames :
    Setup([arg |-> StrV(filename), op |-> "SetLogFile"], DoSetLogFile(s, filename))

SetLogLevel ==
  \E l \in -1..MaxLevelArg :
    Setup([arg |-> LevelV(l), op |-> "SetLogLevel"], DoSetLogLevel(s, l))

SetLogStderr ==
  \E enable \in BOOLEAN :
    Setup([arg |-> BoolV(enable), op |-> "SetLogStderr"], DoSetLogStderr(s, enable))

SetOutput ==
  \E w \in Writers : Setup([arg |-> w, op |-> "SetOutput"], DoSetOutput(s, w))

\* a plain entry point ran: writes, and the error it returns
Logged(c, writes, err) ==
  /\ call' = c
  /\ out' = writes
  /\ panicValue' = Nil
  /\ errValue' = err
  /\ retValue' = Nil
  /\ UNCHANGED <<threads, loggerMutex>>
  /\ UNCHANGED s

\* a call panicked with payload v before writing anything
Panicked(c, v) ==
  /\ call' = c
  /\ out' = << >>
  /\ panicValue' = v
  /\ errValue' = Nil
  /\ retValue' = Nil
  /\ UNCHANGED <<threads, loggerMutex>>
  /\ UNCHANGED s

\* a plain entry point ran: it panicked in its first printf, or it logged
Printed(c, writes, err) ==
  IF printfPanics(s, c.level) THEN Panicked(c, nilDereference) ELSE Logged(c, writes, err)

PlainCall(op, l, in) ==
  [a |-> in.a, level |-> l, msg |-> in.format, op |-> op, structured |-> FALSE]
StructuredCall(op, l, msg, args) ==
  [a |-> args, level |-> l, msg |-> msg, op |-> op, structured |-> TRUE]

\* Panicf writing the caller's message after the stack trace
PanicfMessageLast ==
  \E in \in PlainInputs :
    Printed(PlainCall("Panicf", Panic, in),
           printf(s, Panic, <<"========= Stack trace output ========">>, << >>)
           \o printf(s, Panic, <<"%+v">>, <<StrV(StackTrace)>>)
           \o printf(s, Panic, <<"========= Stack trace output end ========">>, << >>)
           \o printf(s, Panic, in.format, in.a),
           Nil)

Panicf ==
  \E in \in PlainInputs :
    Printed(PlainCall("Panicf", Panic, in),
           printf(s, Panic, in.format, in.a)
           \o printf(s, Panic, <<"========= Stack trace output ========">>, << >>)
           \o printf(s, Panic, <<"%+v">>, <<StrV(StackTrace)>>)
           \o printf(s, Panic, <<"========= Stack trace output end ========">>, << >>),
           Nil)

Errorf ==
  \E in \in PlainInputs :
    Printed(PlainCall("Errorf", Error, in), printf(s, Error, in.format, in.a),
           StrV(Sprintf(in.format, in.a)))

Warningf ==
  \E in \in PlainInputs :
    Printed(PlainCall("Warningf", Warning, in), printf(s, Warning, in.format, in.a), Nil)

Infof ==
  \E in \in PlainInputs :
    Printed(PlainCall("Infof", Info, in), printf(s, Info, in.format, in.a), Nil)

Debugf ==
  \E in \in PlainInputs :
    Printed(PlainCall("Debugf", Debug, in), printf(s, Debug, in.format, in.a), Nil)

\* Structured returning the error only for a message that was written
StructuredErrorWhenWritten(op, l, msg, args, passed, withErr) ==
  LET r == structuredMessage(s, l, msg, passed)
      c == StructuredCall(op, l, msg, args)
      writes == printWithPrefixf(s, l, FALSE, r.m, << >>)
  IN IF r.panic # Nil THEN Panicked(c, r.panic)
     ELSE Logged(c, writes,
                 IF withErr /\ writes # << >>
                 THEN StrV(Sprintf(<<"%s">>, <<StrV(r.m)>>)) ELSE Nil)

\* Structured passing the gates of printWithPrefixf before it assembles
StructuredGateFirst(op, l, msg, args, passed, withErr) ==
  LET r == structuredMessage(s, l, msg, passed)
      c == StructuredCall(op, l, msg, args)
      gated == \/ l > StateGetLogLevel(s)
               \/ ~StateIsFileLoggingEnabled(s) /\ ~StateGetLogToStderr(s)
  IN IF r.panic # Nil /\ ~gated THEN Panicked(c, r.panic)
     ELSE Logged(c, IF gated THEN << >> ELSE printWithPrefixf(s, l, FALSE, r.m, << >>),
                 IF withErr /\ r.panic = Nil
                 THEN StrV(Sprintf(<<"%s">>, <<StrV(r.m)>>)) ELSE Nil)

\* the body shared by the structured entry points: structuredMessage, then
\* printWithPrefixf without prefix; withErr: the entry point returns the error
Structured(op, l, msg, args, passed, withErr) ==
  LET r == structuredMessage(s, l, msg, passed)
      c == StructuredCall(op, l, msg, args)
  IN IF r.panic # Nil THEN Panicked(c, r.panic)
     ELSE Logged(c, printWithPrefixf(s, l, FALSE, r.m, << >>),
                 IF withErr THEN StrV(Sprintf(<<"%s">>, <<StrV(r.m)>>)) ELSE Nil)

\* PanicStructured putting the stack trace in front of the caller's arguments
PanicStructuredStackFirst ==
  \E msg \in Messages, args \in ArgLists :
    Structured("PanicStructured", Panic, msg, args,
               <<StrV(<<"stacktrace">>), StrV(StackTrace)>> \o args, FALSE)

PanicStructured ==
  \E msg \in Messages, args \in ArgLists :
    Structured("PanicStructured", Panic, msg, args,
               args \o <<StrV(<<"stacktrace">>), StrV(StackTrace)>>, FALSE)

ErrorStructured ==
  \E msg \in Messages, args \in ArgLists :
    Structured("ErrorStructured", Error, msg, args, args, TRUE)

WarningStructured ==
  \E msg \in Messages, args \in ArgLists :
    Structured("WarningStructured", Warning, msg, args, args, FALSE)

InfoStructured ==
  \E msg \in Messages, args \in ArgLists :
    Structured("InfoStructured", Info, msg, args, args, FALSE)

DebugStructured ==
  \E msg \in Messages, args \in ArgLists :
    Structured("DebugStructured", Debug, msg, args, args, FALSE)

Next ==
  \/ initLogger
  \/ SetPrefixer
  \/ SetStructuredPrefixer
  \/ SetDefaultPrefixer
  \/ SetDefaultStructuredPrefixer
  \/ SetLogOptions
  \/ SetLogFile
  \/ SetLogLevel
  \/ SetLogStderr
  \/ SetOutput
  \/ Panicf
  \/ Errorf
  \/ Warningf
  \/ Infof
  \/ Debugf
  \/ PanicStructured
  \/ ErrorStructured
  \/ WarningStructured
  \/ InfoStructured
  \/ DebugStructured

Spec == Init /\ [][Next]_vars

(***************************************************************************)
(* The level functions, called in any configuration of threshold and       *)
(* stderr flag                                                             *)
(***************************************************************************)
\* the strings handed to StringToLevel: the level names, "invalid" and the
\* "verbose" of the README, each in every mix of upper and lower case, and ""
NameWords == {panicStr, errorStr, warningStr, infoStr, debugStr, invalidStr, "verbose"}

ToUpperChar(c) ==
  IF \E i \in 1..Len(Lowercase) : Lowercase[i] = c
  THEN Uppercase[CHOOSE i \in 1..Len(Lowercase) : Lowercase[i] = c]
  ELSE c

CaseVariants(str) ==
  { [i \in 1..Len(str) |-> IF i \in U THEN ToUpperChar(str[i]) ELSE str[i]] :
      U \in SUBSET (1..Len(str)) }

Names == UNION { CaseVariants(Chars(w)) : w \in NameWords } \cup { << >> }

\* the integers handed to String and IsValid
Levels == -1..MaxLevelArg

\* a level function ran: it returned v after the writes
Returned(c, v, writes) ==
  /\ call' = c
  /\ out' = writes
  /\ panicValue' = Nil
  /\ errValue' = Nil
  /\ retValue' = v
  /\ UNCHANGED <<s, threads, loggerMutex>>

StringToLevel ==
  \E level \in Names :
    LET r == DoStringToLevel(level)
    IN Returned([arg |-> StrV(level), op |-> "StringToLevel"], LevelV(r.ret), r.out)

LevelString ==
  \E l \in Levels : Returned([arg |-> LevelV(l), op |-> "String"], StrV(<<String(l)>>), << >>)

LevelIsValid ==
  \E l \in Levels : Returned([arg |-> LevelV(l), op |-> "IsValid"], BoolV(IsValid(l)), << >>)

LevelNext ==
  \/ SetLogLevel
  \/ SetLogStderr
  \/ StringToLevel
  \/ LevelString
  \/ LevelIsValid

LevelSpec == Init /\ [][LevelNext]_vars

(***************************************************************************)
(* Goroutines calling the methods of the state concurrently                *)
(***************************************************************************)
\* the other variables of the logger stay as they are
LoggerUnchanged == UNCHANGED <<call, out, panicValue, errValue, retValue>>

\* Lock that waits for a writer only, not for the readers
LockIgnoringReaders(g) ==
  /\ threads[g] = Outside
  /\ loggerMutex.writer = ""
  /\ \E method \in Methods : \E param \in MethodArgs(method) :
       /\ LockMode(method) = "Lock"
       /\ threads' = [threads EXCEPT ![g] = Inside(method, param, 1, s, Nil)]
  /\ loggerMutex' = [loggerMutex EXCEPT !.writer = g]
  /\ UNCHANGED s
  /\ LoggerUnchanged

\* s.loggerMutex.Lock(), first statement of a method: waits until no
\* goroutine holds the mutex
Lock(g) ==
  /\ threads[g] = Outside
  /\ loggerMutex = Unlocked
  /\ \E method \in Methods : \E param \in MethodArgs(method) :
       /\ LockMode(method) = "Lock"
       /\ threads' = [threads EXCEPT ![g] = Inside(method, param, 1, s, Nil)]
  /\ loggerMutex' = [loggerMutex EXCEPT !.writer = g]
  /\ UNCHANGED s
  /\ LoggerUnchanged

\* s.loggerMutex.RLock(), first statement of a method: waits until no
\* goroutine holds the mutex for writing
RLock(g) ==
  /\ threads[g] = Outside
  /\ loggerMutex.writer = ""
  /\ \E method \in Methods : \E param \in MethodArgs(method) :
       /\ LockMode(method) = "RLock"
       /\ threads' = [threads EXCEPT ![g] = Inside(method, param, 1, s, Nil)]
  /\ loggerMutex' = [loggerMutex EXCEPT !.readers = @ \cup {g}]
  /\ UNCHANGED s
  /\ LoggerUnchanged

\* Body with SetLogOptions publishing the descriptor as its last statement
BodyRepublishing(g) ==
  LET th == threads[g] IN
  /\ th.statement \in 1..NumStatements(th.method, th.param)
  /\ LET e == Statement(th.method, th.param, th.statement, s, th.value)
         last == /\ th.method = "SetLogOptions"
                 /\ th.statement = NumStatements(th.method, th.param)
     IN /\ s' = IF last /\ StateIsFileLoggingEnabled(e.s)
                THEN StateSetLoggerAsLogWriter(e.s) ELSE e.s
        /\ threads' = [threads EXCEPT ![g] = Inside(th.method, th.param, th.statement + 1,
                                                     th.found, e.value)]
  /\ UNCHANGED loggerMutex
  /\ LoggerUnchanged

\* the next statement of the method the goroutine is in
Body(g) ==
  LET th == threads[g] IN
  /\ th.statement \in 1..NumStatements(th.method, th.param)
  /\ LET e == Statement(th.method, th.param, th.statement, s, th.value)
     IN /\ s' = e.s
        /\ threads' = [threads EXCEPT ![g] = Inside(th.method, th.param, th.statement + 1,
                                                     th.found, e.value)]
  /\ UNCHANGED loggerMutex
  /\ LoggerUnchanged

\* the goroutine has executed the last statement of its method
Finished(g) ==
  /\ threads[g] # Outside
  /\ threads[g].statement = NumStatements(threads[g].method, threads[g].param) + 1

\* a setter that returns without the deferred Unlock
UnlockOmitted(g) ==
  /\ Finished(g)
  /\ LockMode(threads[g].method) = "Lock"
  /\ threads' = [threads EXCEPT ![g] = Outside]
  /\ UNCHANGED <<s, loggerMutex>>
  /\ LoggerUnchanged

\* defer s.loggerMutex.Unlock(): the method returns
Unlock(g) ==
  /\ Finished(g)
  /\ LockMode(threads[g].method) = "Lock"
  /\ loggerMutex' = [loggerMutex EXCEPT !.writer = ""]
  /\ threads' = [threads EXCEPT ![g] = Outside]
  /\ UNCHANGED s
  /\ LoggerUnchanged

\* defer s.loggerMutex.RUnlock(): the method returns
RUnlock(g) ==
  /\ Finished(g)
  /\ LockMode(threads[g].method) = "RLock"
  /\ loggerMutex' = [loggerMutex EXCEPT !.readers = @ \ {g}]
  /\ threads' = [threads EXCEPT ![g] = Outside]
  /\ UNCHANGED s
  /\ LoggerUnchanged

LockNext ==
  \E g \in Threads :
    \/ Lock(g)
    \/ RLock(g)
    \/ Body(g)
    \/ Unlock(g)
    \/ RUnlock(g)

LockSpec == Init /\ [][LockNext]_vars

\* a goroutine inside a method of the state is runnable: a method only
\* assigns fields and returns, it waits for nothing and calls nothing else,
\* so the scheduler runs it to its return
LockFairSpec ==
  LockSpec /\ \A g \in Threads : WF_vars(Body(g) \/ Unlock(g) \/ RUnlock(g))

(***************************************************************************)
(* Goroutines calling the setup functions, a getter and Infof              *)
(* concurrently.  A public function is a sequence of calls of methods of   *)
(* the state and of calls of Write on a sink; each call of a method runs   *)
(* under the lock, each call of Write without it, and each is one step     *)
(* here.                                                                   *)
(***************************************************************************)
\* the functions the goroutines call, with what they pass
CallArgs ==
  [SetLogFile |-> {NoFile, logFile, symlink},
   SetLogOptions |-> {Nil, Options(IntV(1), IntV(10), IntV(1), BoolV(TRUE))},
   GetLogWriter |-> {Nil}, SetLogStderr |-> BOOLEAN, SetOutput |-> Writers]

\* the k-th call in a public function, on state st with local value v: the
\* state, the local value and the writes after it, the call that comes next
\* (0: the function returns) and the payload if the call panics
CallStep(method, param, k, st, v) ==
  LET Ret(st1, writes, v1, next) ==
        [panic |-> Nil, s |-> st1, out |-> writes, value |-> v1, next |-> next]
  IN
  CASE method = "SetLogOptions" ->
         ( CASE k = 1 -> Ret(StateSetLogOptions(st, param), << >>, v, 2)
             [] k = 2 -> Ret(st, << >>, BoolV(StateIsFileLoggingEnabled(st)),
                             IF StateIsFileLoggingEnabled(st) THEN 3 ELSE 0)
             [] k = 3 -> Ret(StateSetLoggerAsLogWriter(st), << >>, v, 0) )
    [] method = "SetLogFile" /\ param = NoFile ->
         IF k = 1
         THEN Ret(st,
                  IF ~StateGetLogToStderr(st)
                  THEN <<Write(Stderr, logFileReqFailMsg)>> ELSE << >>,
                  BoolV(StateGetLogToStderr(st)), 2)
         ELSE Ret(StateSetLogFile(st, NoFile), << >>, v, 0)
    [] method = "SetLogFile" /\ param # NoFile ->
         Ret(DoSetLogFile(st, param).s, DoSetLogFile(st, param).out, v, 0)
    [] method = "SetOutput" -> Ret(StateSetLogWriter(st, param), << >>, v, 0)
    [] method = "GetLogWriter" -> Ret(st, << >>, StateGetLogWriter(st), 0)
    [] method = "SetLogStderr" /\ param ->
         Ret(StateSetLogToStderr(st, param), << >>, v, 0)
    [] method = "SetLogStderr" /\ ~param ->
         IF k = 1
         THEN Ret(st,
                  IF ~StateIsFileLoggingEnabled(st)
                  THEN <<Write(Stderr, logFileReqFailMsg)>> ELSE << >>,
                  BoolV(StateIsFileLoggingEnabled(st)), 2)
         ELSE Ret(StateSetLogToStderr(st, param), << >>, v, 0)
    [] method = "Infof" ->
         \* printWithPrefixf(level.Info, true, format, a...)
         ( CASE k = 1 -> Ret(st, << >>, v, IF Info > StateGetLogLevel(st) THEN 0 ELSE 2)
             [] k = 2 -> Ret(st, << >>, v, IF StateIsFileLoggingEnabled(st) THEN 4 ELSE 3)
             [] k = 3 -> Ret(st, << >>, v, IF StateGetLogToStderr(st) THEN 4 ELSE 0)
             [] k = 4 ->
                  Ret(st, << >>,
                      [format |-> CreatePrefix(StateGetPrefixer(st), Info, st)
                                  \o param.format,
                       writer |-> Nil],
                      5)
             [] k = 5 -> Ret(st, << >>, v, IF StateGetLogToStderr(st) THEN 6 ELSE 8)
             [] k = 6 -> Ret(st, <<doWritef(Stderr, v.format, param.a)[1]>>, v, 7)
             [] k = 7 -> Ret(st, <<doWritef(Stderr, v.format, param.a)[2]>>, v, 8)
             [] k = 8 -> Ret(st, << >>, v, IF StateIsFileLoggingEnabled(st) THEN 9 ELSE 0)
             [] k = 9 ->
                  Ret(st, << >>, [format |-> v.format, writer |-> StateGetLogWriter(st)],
                      10)
             [] k = 10 ->
                  IF v.writer = Nil
                  THEN [panic |-> nilDereference, s |-> st, out |-> << >>, value |-> v,
                        next |-> 0]
                  ELSE Ret(st, <<doWritef(v.writer, v.format, param.a)[1]>>, v, 11)
             [] k = 11 -> Ret(st, <<doWritef(v.writer, v.format, param.a)[2]>>, v, 0) )

\* a goroutine has executed the step e of its function
Stepped(g, method, param, found, e) ==
  /\ s' = e.s
  /\ out' = e.out
  /\ panicValue' = e.panic
  /\ threads' = [threads EXCEPT ![g] = Inside(method, param, e.next, found, e.value)]
  /\ UNCHANGED <<call, errValue, retValue, loggerMutex>>

\* a goroutine that is in no function calls one: up to the return of the
\* first call that the function makes; a panic has ended the program
Call(g) ==
  /\ panicValue = Nil
  /\ threads[g].statement = 0
  /\ \E method \in DOMAIN CallArgs : \E param \in CallArgs[method] :
       Stepped(g, method, param, s, CallStep(method, param, 1, s, Nil))

\* the next call in the function the goroutine is in
Step(g) ==
  LET th == threads[g] IN
  /\ panicValue = Nil
  /\ th.statement # 0
  /\ Stepped(g, th.method, th.param, th.found,
             CallStep(th.method, th.param, th.statement, s, th.value))

CallNext == \E g \in Threads : Call(g) \/ Step(g)

CallSpec == Init /\ [][CallNext]_vars

(***************************************************************************)
(* Goroutines logging with Infof while goroutines change the sinks.  The   *)
(* steps of the functions are those of CallStep: printWithPrefixf asks the *)
(* state in separate calls and doWritef writes the line and its terminator *)
(* in two calls of Write.                                                  *)
(***************************************************************************)
\* a goroutine that is in no function calls Infof, SetLogFile, SetLogStderr
\* or SetOutput: up to the return of the first call that the function makes
Log(g) ==
  LET args == [SetLogFile |-> {NoFile, logFile}, SetLogStderr |-> BOOLEAN,
               SetOutput |-> Writers, Infof |-> PlainInputs]
  IN /\ panicValue = Nil
     /\ threads[g].statement = 0
     /\ \E method \in DOMAIN args : \E param \in args[method] :
          Stepped(g, method, param, Nil, CallStep(method, param, 1, s, Nil))

LogNext == \E g \in Threads : Log(g) \/ Step(g)

LogSpec == Init /\ [][LogNext]_vars

(***************************************************************************)
(* The prefixers a caller can install, the nil value and one whose prefix  *)
(* holds a percent sign among them, and the calls that use them            *)
(***************************************************************************)
\* SetPrefixer with any Prefixer a caller can pass, the nil interface value too
SetPrefixerArg ==
  \E p \in Prefixers \cup {percentPrefix, Nil} : Setup([arg |-> p, op |-> "SetPrefixer"], DoSetPrefixer(s, p))

SetStructuredPrefixerArg ==
  \E p \in StructuredPrefixers \cup {Nil} :
    Setup([arg |-> p, op |-> "SetStructuredPrefixer"], DoSetStructuredPrefixer(s, p))

PrefixerNext ==
  \/ SetPrefixerArg
  \/ SetStructuredPrefixerArg
  \/ SetDefaultPrefixer
  \/ SetDefaultStructuredPrefixer
  \/ SetLogLevel
  \/ SetLogStderr
  \/ SetLogFile
  \/ Infof
  \/ Debugf
  \/ InfoStructured

PrefixerSpec == Init /\ [][PrefixerNext]_vars

(***************************************************************************)
(* Sinks whose Write returns an error.  fmt.Fprintf returns the error of   *)
(* the writer and doWritef drops it, so a logging call makes the same      *)
(* calls of Write whichever of them fail.  broken is the set of sinks      *)
(* whose Write fails during the call; out holds the calls of Write the     *)
(* logging call made, failed ones included.                                *)
(***************************************************************************)
\* Infof giving up at the first Write that returns an error
InfofBrokenGivingUp ==
  \E in \in PlainInputs, broken \in SUBSET ({Stderr, StateGetLogWriter(s)} \ {Nil}) :
    LET writes == printf(s, Info, in.format, in.a)
        failed == {i \in 1..Len(writes) : writes[i].to \in broken}
        last == IF failed = {} THEN Len(writes)
                ELSE CHOOSE i \in failed : \A j \in failed : i <= j
    IN Printed([a |-> in.a, level |-> Info, msg |-> in.format, op |-> "Infof",
                structured |-> FALSE, broken |-> broken],
               SubSeq(writes, 1, last), Nil)

\* func Infof, with the writes to the sinks in broken returning an error
InfofBroken ==
  \E in \in PlainInputs, broken \in SUBSET ({Stderr, StateGetLogWriter(s)} \ {Nil}) :
    Printed([a |-> in.a, level |-> Info, msg |-> in.format, op |-> "Infof",
             structured |-> FALSE, broken |-> broken],
            printf(s, Info, in.format, in.a), Nil)

SinkNext ==
  \/ SetLogLevel
  \/ SetLogStderr
  \/ SetLogFile
  \/ SetOutput
  \/ InfofBroken

SinkSpec == Init /\ [][SinkNext]_vars

(***************************************************************************)
(* Vocabulary of the properties                                            *)
(***************************************************************************)
PlainOps == {"Panicf", "Errorf", "Warningf", "Infof", "Debugf"}
StructuredOps ==
  {"PanicStructured", "ErrorStructured", "WarningStructured", "InfoStructured",
   "DebugStructured"}
LogOps == PlainOps \cup StructuredOps

\* the last call was a logging entry point
IsLogCall == call.op \in LogOps

\* sub occurs in text as a run of consecutive tokens
Contains(text, sub) ==
  \E i \in 0..(Len(text) - Len(sub)) : SubSeq(text, i + 1, i + Len(sub)) = sub

\* the writes of the last call that went to w
WritesTo(w) == SelectSeq(out, LAMBDA e : e.to = w)

\* a write that carries the message of the last call: the formatted text for
\* a plain call, the quoted message for a structured one
CarriesMessage(e) ==
  IF call.structured THEN Contains(e.text, Quoted(call.msg))
  ELSE Contains(e.text, Sprintf(call.msg, call.a))

\* sink w received the message of the last call
Received(w) == \E i \in 1..Len(out) : out[i].to = w /\ CarriesMessage(out[i])

\* the sinks that are enabled
EnabledSinks ==
  (IF s.logToStderr THEN {Stderr} ELSE {}) \cup (IF s.logWriter # Nil THEN {s.logWriter} ELSE {})

\* the arguments structuredMessage was given by the last (structured) call
PassedArgs ==
  IF call.op = "PanicStructured"
  THEN call.a \o <<StrV(<<"stacktrace">>), StrV(StackTrace)>>
  ELSE call.a

\* the list the active StructuredPrefixer returns for the last call
PrefixList == CreateStructuredPrefix(s.structuredPrefixer, call.level, call.msg)

\* key="value" for the i-th pair of a flattened list
PairText(list, i) == Plain(list[2 * i - 1]) \o <<"=">> \o Quoted(Plain(list[2 * i]))

\* the pairs 1..n of a list, single spaces between them
RECURSIVE PairsText(_, _)
PairsText(list, n) ==
  IF n = 0 THEN << >>
  ELSE IF n = 1 THEN PairText(list, 1)
  ELSE PairsText(list, n - 1) \o <<" ">> \o PairText(list, n)

(***************************************************************************)
(* C1  Level gate.  With at least one sink enabled, a message logged at    *)
(* level L (plain or structured) is received by the enabled sinks iff      *)
(* L <= T, T the threshold; for L > T nothing is written to any sink.      *)
(***************************************************************************)
C1_LevelGate ==
  (IsLogCall /\ panicValue = Nil /\ EnabledSinks # {}) =>
     /\ call.level <= s.logLevel => \A w \in EnabledSinks : Received(w)
     /\ call.level > s.logLevel => out = << >>

C1_Witness ==
  /\ IsLogCall /\ panicValue = Nil
  /\ s.logToStderr /\ s.logWriter # Nil
  /\ call.level = Warning /\ s.logLevel = Error
  /\ out = << >>

(***************************************************************************)
(* C2  Fan-out.  A message that passes the level gate is written to        *)
(* os.Stderr iff the stderr flag is set and to the file write-target iff   *)
(* one is active, and to nothing else.                                     *)
(***************************************************************************)
C2_FanOut ==
  (IsLogCall /\ panicValue = Nil /\ call.level <= s.logLevel) =>
     /\ Received(Stderr) <=> s.logToStderr
     /\ WritesTo(Stderr) # << >> <=> s.logToStderr
     /\ s.logWriter # Nil => Received(s.logWriter)
     /\ \A i \in 1..Len(out) : out[i].to \in EnabledSinks

C2_Witness ==
  /\ IsLogCall /\ panicValue = Nil /\ call.level <= s.logLevel
  /\ ~s.logToStderr /\ s.logWriter # Nil
  /\ Received(s.logWriter) /\ WritesTo(Stderr) = << >>

(***************************************************************************)
(* C3  Sink-availability gate.  With os.Stderr off and no file             *)
(* write-target, a logging call at any level writes nothing: no line to a  *)
(* sink and no diagnostic on os.Stderr.                                    *)
(***************************************************************************)
C3_NoSinkNoWrite ==
  (IsLogCall /\ ~s.logToStderr /\ s.logWriter = Nil) => out = << >>

C3_Witness ==
  /\ IsLogCall /\ panicValue = Nil /\ call.level <= s.logLevel
  /\ ~s.logToStderr /\ s.logWriter = Nil
  /\ out = << >>

(***************************************************************************)
(* C4  SetLogLevel(l).  For l outside Panic..maximum the threshold stays   *)
(* as it was and the 'cannot set logging level' diagnostic is written to   *)
(* os.Stderr; for l inside, nothing is written and the threshold is l.     *)
(***************************************************************************)
C4_Diagnostic ==
  <<Write(Stderr, <<"cni-log: cannot set logging level to '", invalidStr, "'\n">>)>>

C5_Refused(filename) == filename # NoFile /\ FileSystem[Clean(filename)] # "file"

C6_Supersession ==
  [][/\ call'.op = "SetOutput" => s'.logWriter = call'.arg
     /\ (call'.op \in LogOps /\ panicValue' = Nil /\ call'.level <= s.logLevel
         /\ s.logWriter \in Writers) =>
          \E i \in 1..Len(out') : out'[i].to = s.logWriter
     /\ call'.op \in LogOps =>
          \A i \in 1..Len(out') : out'[i].to # Stderr => out'[i].to = s.logWriter
     /\ (\/ call'.op = "SetLogOptions"
         \/ call'.op = "SetLogFile" /\ ~C5_Refused(call'.arg.v)) =>
          s'.logWriter \notin Writers
     /\ (s'.logWriter \in Writers /\ s'.logWriter # s.logWriter) =>
          call'.op = "SetOutput"]_vars

\* a line went to a lumberjack writer without file name: SetLogOptions took
\* the place of a custom writer before the message was logged
C6_Witness ==
  /\ IsLogCall
  /\ s.logWriter = LumberjackWriter(s.logger) /\ s.logger.Filename = NoFile
  /\ Received(s.logWriter)

(***************************************************************************)
(* C7  SetLogOptions(o) is reset-then-overlay: afterwards each policy      *)
(* field of the descriptor is o's value where o sets it and else the       *)
(* default (MaxSize 100, MaxAge 5, MaxBackups 5, Compress true), whatever  *)
(* it was before.                                                          *)
(***************************************************************************)
C7_Field(o, field, default) ==
  IF o # Nil /\ o[field] # Nil THEN o[field].v ELSE default

C7_ResetThenOverlay ==
  [][call'.op = "SetLogOptions" =>
       /\ s'.logger.MaxSize = C7_Field(call'.arg, "MaxSize", 100)
       /\ s'.logger.MaxAge = C7_Field(call'.arg, "MaxAge", 5)
       /\ s'.logger.MaxBackups = C7_Field(call'.arg, "MaxBackups", 5)
       /\ s'.logger.Compress = C7_Field(call'.arg, "Compress", TRUE)]_vars

C7_Witness ==
  /\ call.op = "SetLogOptions" /\ call.arg = Nil
  /\ s.logger.MaxSize = 100 /\ s.logger.MaxAge = 5
  /\ s.logger.MaxBackups = 5 /\ s.logger.Compress
  /\ s.logger.Filename = logFile

(***************************************************************************)
(* C8  A structured call with an odd number of caller arguments (the       *)
(* StructuredPrefixer having returned an even list) panics with the        *)
(* rendered prefix pairs followed by logging_failure="must provide an even *)
(* number of arguments for structured logging"; the payload holds none of  *)
(* the caller's pairs and nothing is written.                              *)
(***************************************************************************)
C8_Payload ==
  PairsText(PrefixList, Len(PrefixList) \div 2)
  \o <<" ", "logging_failure=">> \o Quoted(structuredLoggingOddArguments)

C8_OddArguments ==
  (IsLogCall /\ call.structured /\ Len(call.a) % 2 = 1 /\ Len(PrefixList) % 2 = 0) =>
     /\ panicValue = StrV(C8_Payload)
     /\ \A i \in 1..(Len(call.a) \div 2) : ~Contains(panicValue.v, PairText(call.a, i))
     /\ out = << >>
     /\ errValue = Nil

C8_Witness ==
  /\ IsLogCall /\ call.structured /\ Len(call.a) = 3
  /\ s.structuredPrefixer = DefaultStructuredPrefixer
  /\ call.level <= s.logLevel /\ s.logToStderr
  /\ panicValue # Nil /\ out = << >>

(***************************************************************************)
(* C9  When the active StructuredPrefixer returns a list of odd length,    *)
(* every structured call panics with msg=<message>                         *)
(* logging_failure=<prefixer must return an even number of arguments ...>, *)
(* also when the caller's arguments are odd in number; the call does not   *)
(* return and writes nothing.                                              *)
(***************************************************************************)
C9_Payload ==
  <<"msg=">> \o Quoted(call.msg) \o <<" logging_failure=">>
  \o Quoted(structuredPrefixerOddArguments)

C9_OddPrefixer ==
  (IsLogCall /\ call.structured /\ Len(PrefixList) % 2 = 1) =>
     /\ panicValue = StrV(C9_Payload)
     /\ out = << >>
     /\ errValue = Nil

C9_Witness ==
  /\ IsLogCall /\ call.structured
  /\ s.structuredPrefixer = invalidPrefix /\ Len(call.a) % 2 = 1
  /\ panicValue = StrV(C9_Payload)

(***************************************************************************)
(* C10  Structured rendering.  For even lists P (prefixer) and A (caller)  *)
(* the emitted line is the (len(P)+len(A))/2 pairs key="value", those of P *)
(* first, in list order, single spaces between them, without plain prefix. *)
(***************************************************************************)
C10_Line ==
  LET list == PrefixList \o PassedArgs
  IN PairsText(list, Len(list) \div 2)

C10_StructuredLine ==
  (IsLogCall /\ call.structured /\ panicValue = Nil) =>
     \A i \in 1..Len(out) : out[i].text # <<"\n">> => out[i].text = C10_Line

(***************************************************************************)
(* C11  Returned error.  Errorf and ErrorStructured always return a non-nil *)
(* error whose text is the formatted message (Errorf: without the plain    *)
(* prefix; ErrorStructured: the joined structured string), in every        *)
(* configuration, also when a gate discards the message; no other logging  *)
(* entry point returns a value.                                            *)
(* C11_AlwaysReturned is the claim as stated.  C11_ReturnedError is the    *)
(* amended claim: an ErrorStructured call that panics on an odd caller     *)
(* list or an odd prefixer list returns nothing; every other Errorf and    *)
(* ErrorStructured call returns the error.                                 *)
(***************************************************************************)
\* the text of the error the last call has to return
C11_ErrorText ==
  IF call.structured THEN C10_Line ELSE Sprintf(call.msg, call.a)

\* a line written by the last Errorf is the plain prefix, then the error text
C11_LinesArePrefixedText ==
  \A i \in 1..Len(out) :
     out[i].text # <<"\n">> =>
        out[i].text = CreatePrefix(s.prefixer, Error, s) \o errValue.v

C11_AlwaysReturned ==
  IsLogCall =>
     IF call.op \in {"Errorf", "ErrorStructured"}
     THEN errValue = StrV(C11_ErrorText)
     ELSE errValue = Nil

C11_ReturnedError ==
  IsLogCall =>
     /\ call.op = "Errorf" =>
          /\ panicValue = Nil
          /\ errValue = StrV(C11_ErrorText)
          /\ C11_LinesArePrefixedText
     /\ call.op = "ErrorStructured" =>
          IF Len(call.a) % 2 = 1 \/ Len(PrefixList) % 2 = 1
          THEN panicValue # Nil /\ errValue = Nil
          ELSE panicValue = Nil /\ errValue = StrV(C11_ErrorText)
     /\ call.op \notin {"Errorf", "ErrorStructured"} => errValue = Nil

\* the level gate discarded an ErrorStructured message; the error is returned
C11_Witness ==
  /\ call.op = "ErrorStructured" /\ Len(call.a) = 2
  /\ s.logLevel = Panic /\ s.logToStderr
  /\ out = << >>
  /\ errValue = StrV(C10_Line)

(***************************************************************************)
(* C12  Panicf makes four dispatch passes at Panic level, in this order:   *)
(* the caller's message, the opening stack-trace banner, the stack trace   *)
(* text, the closing banner; with the configuration unchanged during the   *)
(* call each enabled sink receives the four lines in that order, each      *)
(* with the plain prefix in front, and every line of a pass is written     *)
(* before any line of the next pass.                                       *)
(***************************************************************************)
C12_Lines ==
  <<Sprintf(call.msg, call.a),
    <<"========= Stack trace output ========">>,
    StackTrace,
    <<"========= Stack trace output end ========">>>>

\* the k-th line as a sink receives it
C12_Line(k) == CreatePrefix(s.prefixer, Panic, s) \o C12_Lines[k]

C12_PanicfPasses ==
  call.op = "Panicf" =>
     LET n == Cardinality(EnabledSinks)
     IN /\ call.level = Panic
        /\ Len(out) = 4 * 2 * n
        /\ \A w \in EnabledSinks :
             /\ Len(WritesTo(w)) = 8
             /\ \A k \in 1..4 :
                  /\ WritesTo(w)[2 * k - 1].text = C12_Line(k)
                  /\ WritesTo(w)[2 * k].text = <<"\n">>
        /\ \A k \in 1..4 : \A i \in (2 * n * (k - 1) + 1)..(2 * n * k) :
             out[i].text \in {C12_Line(k), <<"\n">>}

C12_Witness ==
  /\ call.op = "Panicf"
  /\ s.logToStderr /\ s.logWriter \in Writers /\ s.prefixer = customPrefix
  /\ s.logLevel = Panic
  /\ Len(out) = 16
  /\ out[15].text = C12_Line(4)

(***************************************************************************)
(* C13  SetLogFile("") always clears the file target: afterwards the       *)
(* descriptor path is empty and there is no write-target, so the file sink *)
(* is inactive; it writes the 'will not log anything' diagnostic to        *)
(* os.Stderr iff the stderr flag is off at the time of the call.           *)
(***************************************************************************)
C13_Diagnostic ==
  <<Write(Stderr,
          <<"cni-log: filename is required when logging to stderr is off - will not log anything\n">>)>>

C14_SetLogStderr ==
  [][call'.op = "SetLogStderr" =>
       /\ s'.logToStderr = call'.arg.v
       /\ s' = [s EXCEPT !.logToStderr = call'.arg.v]
       /\ out' = IF ~call'.arg.v /\ s.logWriter = Nil
                 THEN <<Write(Stderr, logFileReqFailMsg)>>
                 ELSE << >>]_vars

\* stderr was switched off without write-target: diagnostic, flag stored
C14_Witness ==
  /\ call.op = "SetLogStderr" /\ ~call.arg.v
  /\ ~s.logToStderr /\ s.logWriter = Nil
  /\ out = C13_Diagnostic

(***************************************************************************)
(* C15  Reset to defaults.  After initLogger, run on the zero state at     *)
(* start-up or on any state the setup functions lead to (custom writer or  *)
(* custom prefixer installed), the state is: os.Stderr enabled, no         *)
(* write-target and an empty descriptor path, threshold Info, policy       *)
(* (MaxSize 100, MaxAge 5, MaxBackups 5, Compress true), the default       *)
(* Prefixer and the default StructuredPrefixer; initLogger writes no       *)
(* diagnostic.                                                             *)
(***************************************************************************)
C15_Defaults ==
  [logLevel |-> 4,
   logger |-> [MaxAge |-> 5, MaxSize |-> 100, MaxBackups |-> 5, Compress |-> TRUE,
               Filename |-> << >>],
   logWriter |-> Nil,
   logToStderr |-> TRUE,
   prefixer |-> [t |-> "Default", PrefixFormat |-> <<"%s", " [", "%s", "] ">>,
                 TimeFormat |-> defaultTimestampFormat],
   structuredPrefixer |-> [t |-> "Default", PrefixFormat |-> << >>,
                           TimeFormat |-> defaultTimestampFormat]]

C19_Due(c, st) ==
  \/ c.op = "SetLogLevel" /\ c.arg.v \notin Panic..Debug
  \/ c.op = "SetLogFile" /\ C5_Refused(c.arg.v)
  \/ c.op = "SetLogFile" /\ c.arg.v = NoFile /\ ~st.logToStderr
  \/ c.op = "SetLogStderr" /\ ~c.arg.v /\ st.logWriter = Nil

C19_Text(c) ==
  CASE c.op = "SetLogLevel" ->
         <<"cni-log: cannot set logging level to '", "invalid", "'\n">>
    [] c.op = "SetLogFile" /\ c.arg.v = symlink ->
         <<"cni-log: unable to evaluate symbolic links on path '">>
         \o PathString(c.arg.v) \o <<"'">>
    [] c.op = "SetLogFile" /\ c.arg.v \notin {symlink, NoFile} ->
         <<"cni-log: failed to set log file '">> \o PathString(c.arg.v) \o <<"'\n">>
    [] OTHER ->
         <<"cni-log: filename is required when logging to stderr is off - will not log anything\n">>

C19_SetupOps ==
  {"initLogger", "SetPrefixer", "SetStructuredPrefixer", "SetDefaultPrefixer",
   "SetDefaultStructuredPrefixer", "SetLogOptions", "SetLogFile", "SetLogLevel",
   "SetLogStderr", "SetOutput"}

C19_AlwaysOn ==
  [][call'.op \in C19_SetupOps =>
       IF C19_Due(call', s)
       THEN out' = <<Write(Stderr, C19_Text(call'))>>
       ELSE out' = << >>]_vars

\* threshold Panic and os.Stderr off: the refused path is still reported
C19_Witness ==
  /\ call.op = "SetLogFile" /\ call.arg.v = procFile
  /\ ~s.logToStderr /\ s.logLevel = Panic /\ s.logWriter \in Writers
  /\ out = <<Write(Stderr, C19_Text(call))>>

(***************************************************************************)
(* C16  Level name round trip.  For each of the six valid levels L,        *)
(* StringToLevel(L.String()) = L; for each valid name in any letter case   *)
(* StringToLevel(name).String() is the lowercase name; names differing     *)
(* only in case map to the same Level.                                     *)
(* C16_SixLevels is the claim as stated, with the levels 1..6 and the six  *)
(* names.  C16_FiveLevels is the amended claim: the valid levels are the   *)
(* five Panic..Debug with their five names; "verbose" is no name.          *)
(***************************************************************************)
\* the round trip over the levels ls and the lowercase names ws
C16_RoundTrip(ls, ws) ==
  /\ (call.op = "String" /\ call.arg.v \in ls) =>
        DoStringToLevel(Chars(retValue.v[1])).ret = call.arg.v
  /\ call.op = "StringToLevel" =>
        \A w \in ws :
           call.arg.v \in CaseVariants(Chars(w)) =>
              /\ String(retValue.v) = w
              /\ retValue.v \in ls
              /\ \A other \in CaseVariants(Chars(w)) :
                   DoStringToLevel(other).ret = retValue.v

C17_Names == <<"panic", "error", "warning", "info", "debug", "verbose">>

\* validity with the valid levels being 1..top
C17_Validity(top) ==
  /\ call.op = "IsValid" => retValue = BoolV(call.arg.v \in 1..top)
  /\ call.op = "String" =>
        /\ call.arg.v \in 1..top => retValue = StrV(<<C17_Names[call.arg.v]>>)
        /\ call.arg.v \notin 1..top => retValue = StrV(<<"invalid">>)
  /\ call.op \in {"IsValid", "String"} =>
        /\ IsValid(call.arg.v) <=> String(call.arg.v) # "invalid"
        /\ IsValid(call.arg.v) <=> \E k \in DOMAIN levelMap : levelMap[k] = call.arg.v
        /\ IsValid(call.arg.v) <=> \E n \in Names : DoStringToLevel(n).ret = call.arg.v
                                               /\ call.arg.v # Invalid

C18_TableNames ==
  UNION { CaseVariants(Chars(w)) : w \in {"panic", "error", "warning", "info", "debug"} }

C18_Diagnostic(name) ==
  <<Write(Stderr, <<"cni-log: cannot set logging level to '">> \o name \o <<"'\n">>)>>

C20_Set(method, param, st) ==
  CASE method = "SetLogger" -> StateSetLogger(st, param)
    [] method = "SetLogWriter" -> StateSetLogWriter(st, param)
    [] method = "SetLoggerAsLogWriter" -> StateSetLoggerAsLogWriter(st)
    [] method = "SetLogLevel" -> StateSetLogLevel(st, param)
    [] method = "SetLogToStderr" -> StateSetLogToStderr(st, param)
    [] method = "SetPrefixer" -> StateSetPrefixer(st, param)
    [] method = "SetStructuredPrefixer" -> StateSetStructuredPrefixer(st, param)
    [] method = "SetLogFile" -> StateSetLogFile(st, param)
    [] method = "SetLogOptions" -> StateSetLogOptions(st, param)

\* what a whole getter returns in state st
C20_Get(method, st) ==
  CASE method = "GetLogger" -> StateGetLogger(st)
    [] method = "GetLogWriter" -> StateGetLogWriter(st)
    [] method = "GetLogLevel" -> LevelV(StateGetLogLevel(st))
    [] method = "GetLogToStderr" -> BoolV(StateGetLogToStderr(st))
    [] method = "GetPrefixer" -> StateGetPrefixer(st)
    [] method = "GetStructuredPrefixer" -> StateGetStructuredPrefixer(st)
    [] method = "IsFileLoggingEnabled" -> BoolV(StateIsFileLoggingEnabled(st))

C20_InSetter(g) == threads[g] # Outside /\ threads[g].method \in Setters
C20_InGetter(g) == threads[g] # Outside /\ threads[g].method \in Getters

\* C20: the holder of the mutex fits the method each goroutine is in, a
\* setter excludes every other method, and a finished method has acted as
\* one step on the state it found
C20_LockDiscipline ==
  /\ \A g \in Threads :
       /\ C20_InSetter(g) => loggerMutex = [writer |-> g, readers |-> {}]
       /\ C20_InGetter(g) => loggerMutex.writer = "" /\ g \in loggerMutex.readers
  /\ \A g1, g2 \in Threads :
       (g1 # g2 /\ C20_InSetter(g1)) => ~C20_InSetter(g2) /\ ~C20_InGetter(g2)
  /\ \A g \in Threads :
       Finished(g) =>
          IF threads[g].method \in Setters
          THEN s = C20_Set(threads[g].method, threads[g].param, threads[g].found)
          ELSE /\ threads[g].value = C20_Get(threads[g].method, s)
               /\ s = threads[g].found

\* one goroutine is half way through SetLogOptions, the other is kept out
C20_Witness ==
  /\ threads["g1"] # Outside /\ threads["g1"].method = "SetLogOptions"
  /\ threads["g1"].statement = 7
  /\ s.logger.MaxBackups = 5 /\ threads["g1"].found.logger.MaxBackups = 1
  /\ threads["g2"] = Outside /\ loggerMutex.writer = "g1"

(***************************************************************************)
(* C25  After SetOutput(w), any later SetLogFile or SetLogOptions call,    *)
(* whatever its argument and whatever its outcome, makes w stop being the  *)
(* file write-target.                                                      *)
(* C25_AnyOutcome is the claim as stated.  C25_UnlessRefused is the        *)
(* amended claim: every SetLogOptions call and every SetLogFile call that  *)
(* is not refused makes w stop being the write-target; a refused           *)
(* SetLogFile leaves w installed.                                          *)
(***************************************************************************)
C25_Replaces ==
  /\ s.logWriter \in Writers
  /\ call'.op \in {"SetLogFile", "SetLogOptions"}

C28_Completed ==
  \/ call.op = "SetLogOptions"
  \/ call.op = "SetLogFile" /\ call.arg.v # NoFile /\ ~C5_Refused(call.arg.v)

C28_SnapshotEqualsDescriptor ==
  (C28_Completed /\ s.logWriter # Nil /\ s.logWriter.t = "lumberjack") =>
     /\ s.logWriter.v.Filename = s.logger.Filename
     /\ s.logWriter.v.MaxSize = s.logger.MaxSize
     /\ s.logWriter.v.MaxAge = s.logger.MaxAge
     /\ s.logWriter.v.MaxBackups = s.logger.MaxBackups
     /\ s.logWriter.v.Compress = s.logger.Compress

\* SetLogOptions changed the policy while a file was the target
C28_Witness ==
  /\ call.op = "SetLogOptions" /\ call.arg # Nil /\ call.arg.MaxSize = IntV(10)
  /\ s.logger.Filename = logFile /\ s.logger.MaxSize = 10
  /\ s.logWriter # Nil /\ s.logWriter.t = "lumberjack"

(***************************************************************************)
(* C29  Threshold validity.  The setter of the state stores any level, but *)
(* in every state reachable through the public functions the threshold is  *)
(* a valid level, Panic or above, so the level gate never discards a       *)
(* message of level Panic.                                                 *)
(***************************************************************************)
C29_ValidThreshold ==
  /\ s.logLevel \in Panic..maximum
  /\ (call.op \in {"Panicf", "PanicStructured"} /\ panicValue = Nil) =>
        \A w \in EnabledSinks : Received(w)

\* a Panic message got through the strictest threshold
C29_Witness ==
  /\ call.op = "Panicf" /\ s.logLevel = Panic
  /\ s.logToStderr /\ Received(Stderr)

(***************************************************************************)
(* C30  PanicStructured appends the pair (stacktrace, stack trace) after   *)
(* the caller's arguments and writes one line in one pass, whose last      *)
(* rendered pair has the key stacktrace; two elements being appended, a    *)
(* call with an odd number of caller arguments still panics with the       *)
(* odd-arguments failure.                                                  *)
(***************************************************************************)
C30_LastPair == PairText(<<StrV(<<"stacktrace">>), StrV(StackTrace)>>, 1)

C30_EndsWith(text, tail) ==
  /\ Len(text) >= Len(tail)
  /\ SubSeq(text, Len(text) - Len(tail) + 1, Len(text)) = tail

C30_Failure ==
  Sprintf(<<"logging_failure=", "%q">>, <<StrV(structuredLoggingOddArguments)>>)

\* C30: odd caller lists panic with the failure pair; else each enabled sink
\* gets one line and the line ends with the stacktrace pair
C30_StacktraceLast ==
  (call.op = "PanicStructured" /\ Len(PrefixList) % 2 = 0) =>
     IF Len(call.a) % 2 # 0
     THEN /\ panicValue # Nil
          /\ C30_EndsWith(panicValue.v, C30_Failure)
          /\ out = << >>
     ELSE /\ panicValue = Nil
          /\ \A w \in EnabledSinks : Len(WritesTo(w)) = 2
          /\ \A i \in 1..Len(out) :
               out[i].text # <<"\n">> => C30_EndsWith(out[i].text, C30_LastPair)

\* a PanicStructured call with caller pairs wrote its line to both sinks
C30_Witness ==
  /\ call.op = "PanicStructured" /\ Len(call.a) = 2 /\ panicValue = Nil
  /\ s.logToStderr /\ s.logWriter # Nil
  /\ Len(out) = 4 /\ C30_EndsWith(out[1].text, C30_LastPair)

(***************************************************************************)
(* C22  After initialization, in every state reachable by public calls,    *)
(* SetPrefixer and SetStructuredPrefixer with arbitrary arguments          *)
(* included, the active Prefixer and the active StructuredPrefixer are     *)
(* non-null, so a logging call never dereferences an absent formatter.     *)
(***************************************************************************)
C22_NeverNull ==
  /\ s.prefixer # Nil
  /\ s.structuredPrefixer # Nil
  /\ panicValue # nilDereference

(***************************************************************************)
(* C23  Active prefixer selection.  Every plain message emitted after      *)
(* SetPrefixer(p) returns carries the prefix produced by p for the level   *)
(* of the message, and after SetDefaultPrefixer the default prefix; the    *)
(* prefix is produced once for one message, so that os.Stderr and the file *)
(* sink receive the same text: the prefix in front of the formatted        *)
(* payload; a message discarded by a gate gets no prefix and no write.     *)
(***************************************************************************)
C23_Line == CreatePrefix(s.prefixer, call.level, s) \o Sprintf(call.msg, call.a)

C23_PrefixedOnce ==
  /\ call.op = "SetPrefixer" => s.prefixer = call.arg
  /\ call.op = "SetDefaultPrefixer" => s.prefixer = DefaultPrefixer
  /\ (call.op \in PlainOps /\ panicValue = Nil) =>
        IF call.level > s.logLevel \/ EnabledSinks = {}
        THEN out = << >>
        ELSE \A w \in EnabledSinks :
               /\ Len(WritesTo(w)) >= 2
               /\ WritesTo(w)[1].text = C23_Line

(***************************************************************************)
(* C24  As the README states: when an empty or invalid file path (e.g.     *)
(* insufficient permissions) or a symbolic link is passed to SetLogFile,   *)
(* the default log file path, /var/log/cni-log.log, is used as the file    *)
(* target.                                                                 *)
(***************************************************************************)
C24_DefaultPath == <<"var", "log", "cni-log.log">>

C24_DefaultLogFile ==
  (call.op = "SetLogFile" /\ (call.arg.v = NoFile \/ C5_Refused(call.arg.v))) =>
     /\ s.logger.Filename = C24_DefaultPath
     /\ s.logWriter = LumberjackWriter(s.logger)

(***************************************************************************)
(* C26  Clearing the file target is one atomic update: in every            *)
(* interleaving no concurrent reader observes the descriptor path empty    *)
(* while the write-target is still the managed snapshot, nor the           *)
(* write-target absent while the descriptor path is still the old path.    *)
(***************************************************************************)
C26_Clearing(g) ==
  /\ threads[g] # Outside
  /\ threads[g].method = "SetLogFile" /\ threads[g].param = NoFile

\* the clearing goroutine has emptied the path and not yet the write-target
C26_HalfCleared(g) ==
  /\ C26_Clearing(g) /\ threads[g].statement = 2
  /\ s.logger.Filename = NoFile /\ s.logWriter # Nil

\* C26: while a goroutine clears the file target no other goroutine is in a
\* method of the state, and when it is through both fields are cleared
C26_AtomicClear ==
  \A g \in Threads :
    C26_Clearing(g) =>
      /\ \A r \in Threads \ {g} : threads[r] = Outside
      /\ threads[g].statement = 2 =>
           s.logger.Filename = NoFile /\ s.logWriter = threads[g].found.logWriter
      /\ Finished(g) => s.logger.Filename = NoFile /\ s.logWriter = Nil

\* a goroutine is between the two assignments of a clear that found a file
\* target, the other one is outside
C26_Witness ==
  /\ C26_HalfCleared("g1")
  /\ threads["g1"].found.logger.Filename = logFile
  /\ s.logWriter.t = "lumberjack" /\ s.logWriter.v.Filename = logFile
  /\ threads["g2"] = Outside

(***************************************************************************)
(* C27  Snapshot decoupling.  The managed write-target is a copy of the    *)
(* rotation descriptor taken when it is published; SetLogOptions of the    *)
(* state changes the descriptor only and leaves the write-target, with the *)
(* policy it carries, as it is, until SetLoggerAsLogWriter or SetLogFile   *)
(* publishes again.                                                        *)
(***************************************************************************)
C27_In(g, method) == threads[g] # Outside /\ threads[g].method = method

C27_Decoupled ==
  \A g \in Threads :
    /\ C27_In(g, "SetLogOptions") =>
         /\ s.logWriter = threads[g].found.logWriter
         /\ s = [threads[g].found EXCEPT !.logger = s.logger]
         /\ s.logger.Filename = threads[g].found.logger.Filename
    /\ (Finished(g) /\ C27_In(g, "SetLoggerAsLogWriter")) =>
         /\ s.logWriter = LumberjackWriter(s.logger)
         /\ s.logger = threads[g].found.logger
    /\ (Finished(g) /\ C27_In(g, "SetLogFile") /\ threads[g].param # NoFile) =>
         /\ s.logWriter = LumberjackWriter(s.logger)
         /\ s.logger = [threads[g].found.logger EXCEPT !.Filename = threads[g].param]

\* SetLogOptions has changed the descriptor under a published snapshot,
\* which still carries the policy it was published with
C27_Witness ==
  /\ Finished("g1") /\ C27_In("g1", "SetLogOptions")
  /\ s.logWriter # Nil /\ s.logWriter.t = "lumberjack"
  /\ s.logWriter.v.MaxBackups = 5 /\ s.logger.MaxBackups = 1

(***************************************************************************)
(* C21  Each setup call is atomic as a unit: while a SetLogOptions,        *)
(* SetLogFile or SetOutput call is in progress, no concurrently running    *)
(* reader or logging call observes a partially updated combination of the  *)
(* fields the call writes; for SetLogOptions: never the new policy in the  *)
(* descriptor together with the old write-target snapshot, that is not yet *)
(* published again.                                                        *)
(***************************************************************************)
\* a goroutine has called the function and the function has returned
C21_Returned(g, method) == threads[g].method = method /\ threads[g].statement = 0

\* C21: a managed write-target that a getter returns carries the policy of
\* the descriptor of the state it was read from
C21_NoPartialUpdate ==
  \A g \in Threads :
    (C21_Returned(g, "GetLogWriter") /\ threads[g].value # Nil
     /\ threads[g].value.t = "lumberjack") =>
       threads[g].value.v = threads[g].found.logger

(***************************************************************************)
(* C39  Frame of the setters.  SetLogLevel changes only the threshold,     *)
(* SetLogStderr only the stderr flag, SetPrefixer and SetStructuredPrefixer*)
(* only their own formatter, SetOutput only the file write-target;         *)
(* SetLogOptions never changes the descriptor path, the threshold, the     *)
(* stderr flag or the formatters; and no logging call changes any field of *)
(* the shared state.                                                       *)
(***************************************************************************)
\* the fields of the state a step is allowed to change, by the call it makes
C39_MayChange(op) ==
  CASE op = "SetLogLevel" -> {"logLevel"}
    [] op = "SetLogStderr" -> {"logToStderr"}
    [] op = "SetPrefixer" -> {"prefixer"}
    [] op = "SetStructuredPrefixer" -> {"structuredPrefixer"}
    [] op = "SetOutput" -> {"logWriter"}
    [] op = "SetLogOptions" -> {"logger", "logWriter"}
    [] op \in LogOps -> {}
    [] OTHER -> DOMAIN s

\* C39: every step leaves the fields outside the frame of its call as they
\* were, and SetLogOptions leaves the path of the descriptor as it was
C39_Frame ==
  [][/\ \A f \in DOMAIN s \ C39_MayChange(call'.op) : s'[f] = s[f]
     /\ call'.op = "SetLogOptions" => s'.logger.Filename = s.logger.Filename]_vars

\* SetLogOptions has run on a state whose every other field is away from
\* its default: a file path, a custom threshold, stderr off, custom formatters
C39_Witness ==
  /\ call.op = "SetLogOptions" /\ call.arg # Nil
  /\ s.logger.Filename = logFile /\ s.logger.MaxBackups = 1
  /\ s.logLevel = Debug /\ ~s.logToStderr
  /\ s.prefixer = customPrefix /\ s.structuredPrefixer = customPrefix

(***************************************************************************)
(* C38  Structured assembly precedes the gates.  The StructuredPrefixer is *)
(* invoked exactly once per structured call and a parity violation (odd    *)
(* prefixer list or odd caller arguments) is raised even when the level of *)
(* the message is above the threshold or no sink is enabled, that is, even *)
(* when a well-formed message at that level would have been discarded      *)
(* silently.                                                               *)
(***************************************************************************)
\* the last call is one a gate of printWithPrefixf discards
C38_Gated == call.level > s.logLevel \/ EnabledSinks = {}

C37_Managed == s.logWriter # Nil /\ s.logWriter.t = "lumberjack"

\* C37: a managed write-target carries a path
C37_ManagedHasPath == C37_Managed => s.logWriter.v.Filename # NoFile

(***************************************************************************)
(* C33  Sink writes are independent and failures are swallowed: if the     *)
(* write to stderr fails, the write to the file write-target is still      *)
(* attempted exactly once (stderr is tried first, the file second); a      *)
(* failed write is never retried or queued, and the logging call returns   *)
(* normally without surfacing the failure.                                 *)
(***************************************************************************)
\* the last call was a logging call that passed the level gate while the
\* writes to the sinks in call.broken failed
C33_Dispatched ==
  IsLogCall /\ "broken" \in DOMAIN call /\ call.level <= s.logLevel

\* C33: whichever writes fail, every enabled sink is written its line and
\* its terminator once and no more, os.Stderr before the file write-target,
\* and the call returns without a panic and without an error
C33_FailuresSwallowed ==
  C33_Dispatched =>
     /\ \A w \in EnabledSinks :
          /\ Len(WritesTo(w)) = 2
          /\ CarriesMessage(WritesTo(w)[1])
          /\ WritesTo(w)[2].text = <<"\n">>
     /\ Len(out) = 2 * Cardinality(EnabledSinks)
     /\ \A i, j \in 1..Len(out) : (out[i].to = Stderr /\ out[j].to # Stderr) => i < j
     /\ panicValue = Nil /\ errValue = Nil

\* the writes to os.Stderr failed and the file write-target was written
\* its line after them
C33_Witness ==
  /\ C33_Dispatched
  /\ s.logToStderr /\ s.logWriter # Nil
  /\ call.broken = {Stderr}
  /\ Len(out) = 4 /\ out[1].to = Stderr /\ out[3].to = s.logWriter

(***************************************************************************)
(* C36  Setup calls are linearizable with respect to file-sink enablement: *)
(* when SetLogOptions and SetLogFile("") run concurrently with no other    *)
(* operation, the state after both have returned equals the state produced *)
(* by one of the two sequential orders, in both of which the file sink is  *)
(* inactive; a cleared file sink is never re-activated by the concurrent   *)
(* SetLogOptions.                                                          *)
(***************************************************************************)
\* goroutine g has returned from SetLogOptions and h from SetLogFile(""),
\* and the two calls overlapped or followed each other directly: the clear
\* started on the state SetLogOptions found or on one it made of it, or
\* SetLogOptions started on the state the clear left and saw no file target;
\* the descriptor has the policy this SetLogOptions gave it
C36_Pair(g, h) ==
  LET a == threads[g]
      b == threads[h]
  IN /\ C21_Returned(g, "SetLogOptions")
     /\ C21_Returned(h, "SetLogFile") /\ b.param = NoFile
     /\ \/ b.found \in {a.found, StateSetLogOptions(a.found, a.param),
                        DoSetLogOptions(a.found, a.param).s}
        \/ a.found = DoSetLogFile(b.found, NoFile).s /\ a.value = BoolV(FALSE)
     /\ [s.logger EXCEPT !.Filename = NoFile]
          = [StateSetLogOptions(a.found, a.param).logger EXCEPT !.Filename = NoFile]

\* the states the two sequential orders leave, started on state st
C36_Sequential(st, o) ==
  { DoSetLogFile(DoSetLogOptions(st, o).s, NoFile).s,
    DoSetLogOptions(DoSetLogFile(st, NoFile).s, o).s }

\* C36: after the pair the state is one a sequential order leaves, with the
\* file sink inactive
C36_Linearizable ==
  \A g, h \in Threads :
    C36_Pair(g, h) =>
      /\ \/ s \in C36_Sequential(threads[g].found, threads[g].param)
         \/ s \in C36_Sequential(threads[h].found, threads[g].param)
      /\ ~StateIsFileLoggingEnabled(s)

(***************************************************************************)
(* C34  No silent total disablement: starting from a state with at least   *)
(* one sink enabled, for any set of SetLogFile("") and SetLogStderr(false) *)
(* calls, run sequentially or concurrently, if the resulting state has     *)
(* neither sink enabled then at least one of those calls emitted the       *)
(* 'nothing will be logged' diagnostic.                                    *)
(***************************************************************************)
\* goroutine g has returned from SetLogFile("") and h from
\* SetLogStderr(false), and the two calls overlapped or followed each other
\* directly, the first of them on a state with a sink enabled
C34_Pair(g, h) ==
  LET a == threads[g]
      b == threads[h]
      start == IF b.found \in {a.found, DoSetLogFile(a.found, NoFile).s}
               THEN a.found ELSE b.found
  IN /\ C21_Returned(g, "SetLogFile") /\ a.param = NoFile
     /\ C21_Returned(h, "SetLogStderr") /\ b.param = FALSE
     /\ \/ b.found \in {a.found, DoSetLogFile(a.found, NoFile).s}
        \/ a.found = DoSetLogStderr(b.found, FALSE).s
     /\ StateGetLogToStderr(start) \/ StateIsFileLoggingEnabled(start)

\* the call of goroutine g wrote the diagnostic: SetLogFile("") found stderr
\* off, SetLogStderr(false) found no file target
C34_Warned(g) == threads[g].value = BoolV(FALSE)

\* C34: when the pair leaves no sink enabled, one of the two calls has
\* written the diagnostic
C34_NoSilentDisablement ==
  \A g, h \in Threads :
    (C34_Pair(g, h) /\ ~StateGetLogToStderr(s) /\ ~StateIsFileLoggingEnabled(s)) =>
      C34_Warned(g) \/ C34_Warned(h)

(***************************************************************************)
(* C31  One line per message under concurrency: when several threads log   *)
(* concurrently to the same sink, in that sink's byte stream the text of   *)
(* every message is immediately followed by its own newline terminator,    *)
(* that is, the text and terminator of one message are never separated by  *)
(* output of another message.                                              *)
(***************************************************************************)
\* goroutine g has written the text of its message to sink w and not yet
\* the terminator
C31_Pending(g, w) ==
  /\ threads[g].method = "Infof"
  /\ \/ threads[g].statement = 7 /\ w = Stderr
     \/ threads[g].statement = 11 /\ w = threads[g].value.writer

\* C31: no two goroutines have a text without its terminator in the stream
\* of the same sink: the later of the two texts would follow the earlier one
\* where its terminator belongs
C31_OneLine ==
  \A g, h \in Threads : \A w \in {Stderr} \cup Writers \cup {LumberjackWriter(s.logger)} :
    g # h => ~(C31_Pending(g, w) /\ C31_Pending(h, w))

(***************************************************************************)
(* C35  A dispatch never writes to an absent file write-target: in every   *)
(* interleaving of a logging call with concurrent SetLogFile("") or        *)
(* SetOutput calls, the writer that printWithPrefixf passes to doWritef    *)
(* for the file sink is non-nil (the enablement check and the fetch of the *)
(* writer see the same target).                                            *)
(***************************************************************************)
\* C35: a goroutine that is in doWritef for the file sink holds a writer
C35_WriterPresent ==
  \A g \in Threads :
    (threads[g].method = "Infof" /\ threads[g].statement \in {10, 11}) =>
      threads[g].value.writer # Nil

(***************************************************************************)
(* C32  No logging call blocks on a logger-internal resource: the state    *)
(* lock is never held while a Prefixer or StructuredPrefixer callback runs *)
(* or while a sink is written, so a callback that itself calls a getter or *)
(* setter (the test prefixer calls GetLogLevel) cannot deadlock even while *)
(* other threads call setters, and with sinks that return, every logging   *)
(* and setup call terminates.                                              *)
(***************************************************************************)
\* goroutine g holds the mutex, for writing or for reading
C32_Holds(g) == loggerMutex.writer = g \/ g \in loggerMutex.readers

\* C32: a goroutine holds the mutex only inside a method of the state, never
\* in the code between two methods, where the callbacks and the writes to
\* the sinks run; every method that was entered returns; and a goroutine
\* between two methods, as a callback that is about to call a getter or a
\* setter, gets to a point where it has entered one or the mutex is free
C32_NoBlocking ==
  /\ [](\A g \in Threads : threads[g] = Outside => ~C32_Holds(g))
  /\ \A g \in Threads : (threads[g] # Outside) ~> (threads[g] = Outside)
  /\ \A g \in Threads :
       (threads[g] = Outside) ~> (threads[g] # Outside \/ loggerMutex = Unlocked)

\* a goroutine is inside GetLogLevel, the getter the test prefixer calls in
\* CreatePrefix, after the other one has set a prefixer and a threshold and
\* has left the state
C32_Witness ==
  /\ threads["g1"] # Outside /\ threads["g1"].method = "GetLogLevel"
  /\ loggerMutex = [writer |-> "", readers |-> {"g1"}]
  /\ threads["g2"] = Outside
  /\ s.prefixer = customPrefix /\ s.logLevel = Debug

====
